---- MODULE Spec2Model ----
(***************************************************************************)
(* Frame pacing, swap-chain synchronisation and the master render system  *)
(* of pxt-engine (Engine/src), as a state machine.                          *)
(*                                                                         *)
(* The specifications share the state:                                     *)
(*   SpecPacing  Renderer + SwapChain driven by a client that records a    *)
(*               frame without ever blocking on the GPU (the hardest       *)
(*               client for the fences and semaphores);                    *)
(*   Spec        the frame loop of Application::run with                   *)
(*               MasterRenderSystem::onUpdate / doRenderPasses;            *)
(*   SpecPipelines  the same loop with onUpdate and doRenderPasses in      *)
(*               coarse steps, following the pipelines and shader reloads. *)
(* Functions whose inputs the frame loop does not vary are exercised on   *)
(* their own, each from every input of a bounded set: SpecTLAS (createTLAS *)
(* records), SpecSBT (createShaderBindingTable), SpecRegistry (texture and *)
(* material registries), SpecFormats (recreateSwapChain format check),     *)
(* SpecImage (image layout transitions), SpecLights (point-light update),  *)
(* SpecBillboards (point-light billboards), SpecPresentMode                *)
(* (chooseSwapPresentMode), SpecSamplers (the denoiser's images and their  *)
(* sampler), SpecLayers (LayerStack).                                      *)
(***************************************************************************)
EXTENDS Integers, Sequences, FiniteSets, TLC

\* SwapChain::MAX_FRAMES_IN_FLIGHT
MAX_FRAMES_IN_FLIGHT == 2

\* number of images of the swap chain (imageCount()), chosen by the driver
NumImages == 3

\* cap on the length of the graphics queue (never reached by the program)
MaxQueue == 4

FrameSlots == 0 .. (MAX_FRAMES_IN_FLIGHT - 1)
Images == 0 .. (NumImages - 1)
Extents == {0, 1}
AcquireResults == {"SUCCESS", "SUBOPTIMAL", "OUT_OF_DATE"}
PresentResults == {"SUCCESS", "SUBOPTIMAL", "OUT_OF_DATE"}

VARIABLES
    pc,                         \* position of Application::run in its loop body
    m_currentFrame,             \* SwapChain::m_currentFrame
    m_currentFrameIndex,        \* Renderer::m_currentFrameIndex
    m_isFrameStarted,           \* Renderer::m_isFrameStarted
    m_currentImageIndex,        \* Renderer::m_currentImageIndex
    m_inFlightFences,           \* fence index -> signaled
    m_imageAvailableSemaphores, \* frame index -> signaled (or signal pending)
    m_renderFinishedSemaphores, \* image index -> signaled (or signal pending)
    swapImages,                 \* image index -> "free" | "acquired" | "presenting"
    gfxQueue,                   \* submissions the GPU has not finished, oldest first
    presentQueue,               \* present requests not yet executed, oldest first
    windowResized,              \* Window::isWindowResized()
    swapChainExtent,            \* SwapChain::m_swapChainExtent
    m_isRaytracingEnabled,      \* MasterRenderSystem flags
    m_isDenoisingEnabled,
    m_isDebugEnabled,
    m_isReloadShadersButtonPressed,
    m_lastFrameSwapChainExtent, \* MasterRenderSystem::m_lastFrameSwapChainExtent
    sceneImageLayout,           \* m_sceneImage->m_currentLayout
    scene,                      \* entities of the scene that have a BLAS instance
    m_meshInstanceBuffer,       \* contents of the three SSBOs, NullBuffer before creation
    m_emittersBuffer,
    m_volumesBuffer,
    m_tlas,                     \* RayTracingSceneManagerSystem::m_tlas (0 is VK_NULL_HANDLE)
    newTlas,                    \* local newTlas of createTLAS
    m_tlasBuffer,               \* the acceleration structure m_tlasBuffer backs (0: none)
    liveTlas,                   \* acceleration structure handles created and not destroyed
    tlasDescriptor,             \* the handle written in m_tlasDescriptorSet (0: never written)
    boundSets,                  \* descriptor sets bound by the commands recorded so far
    waitedFence,                \* history: the fence the started frame waited on
    lastSubmits,                \* history: fences of the last submissions, newest first
    semFault,                   \* history: a binary semaphore was signalled while signalled
    viewportRecreated,          \* history: this frame recreated the viewport resources
    descriptorFault,            \* history: a set was written while a pending frame bound it
    tlasFault,                  \* history: a TLAS or its buffer went while a pending frame traced it
    acquireResult,              \* history: what acquireNextImage returned to the beginFrame
                                \* that has just returned ("none" once the loop has gone on)
    lightUboWritten,            \* history: onUpdate of this frame wrote the frame's slot of
                                \* m_lightUniformBuffers
    onUpdatePrepared,           \* history: the branch onUpdate of this frame has gone through
                                \* to its end ("none" before, "raytracing" or "raster")
    boundPipelines,             \* pipelines bound by the commands recorded so far
    m_needsRegeneration,        \* DensityTextureRenderSystem::m_needsRegeneration
    pendingRequest,             \* history: a regeneration was requested and not dispatched yet
    servedRequest,              \* history: a request was pending when this frame's passes began
    generateDispatches,         \* history: generate dispatches recorded in this frame
    lastReload,                 \* history: the reloadShaders call of this frame
    pipelineFault,              \* history: a pipeline went while recorded commands bound it
    imageExtent,                \* extent of the scene image, the offscreen depth image and
                                \* framebuffer, and the denoiser images
    descriptorImageExtent       \* descriptor set -> extent of the image it was last pointed at

swapVars == <<m_currentFrame, m_inFlightFences, m_imageAvailableSemaphores,
              m_renderFinishedSemaphores, swapImages, presentQueue, swapChainExtent>>
rendererVars == <<m_currentFrameIndex, m_isFrameStarted, m_currentImageIndex>>
flagVars == <<m_isRaytracingEnabled, m_isDenoisingEnabled, m_isDebugEnabled,
              m_isReloadShadersButtonPressed>>
viewportVars == <<m_lastFrameSwapChainExtent, sceneImageLayout, viewportRecreated>>
ssboVars == <<m_meshInstanceBuffer, m_emittersBuffer, m_volumesBuffer>>
tlasVars == <<m_tlas, newTlas, m_tlasBuffer, liveTlas, tlasDescriptor>>
pacingHistory == <<waitedFence, lastSubmits, semFault>>
faultVars == <<descriptorFault, tlasFault>>
\* everything MasterRenderSystem and its sub-systems own
masterVars == <<flagVars, viewportVars, scene, ssboVars, tlasVars, boundSets, faultVars>>

\* The state of the units that are also exercised on their own, outside the
\* frame loop: the frame loop leaves it alone.
VARIABLES
    done,                       \* the operation exercised on its own has returned
    view,                       \* createTLAS: the entities of the view, in iteration order
    instances,                  \* createTLAS: the local vector instances
    m_meshInstanceData,         \* RayTracingSceneManagerSystem::m_meshInstanceData
    m_emitters,                 \* RayTracingSceneManagerSystem::m_emitters
    m_volumes,                  \* RayTracingSceneManagerSystem::m_volumes
    rtPipelineProps,            \* createShaderBindingTable: the device's ray-tracing properties
    m_raygenRegion,             \* RayTracingRenderSystem: the SBT regions
    m_missRegion,
    m_hitRegion,
    started,                    \* Application::start has run registerResources
    m_textures,                 \* TextureRegistry::m_textures (resource ids)
    m_textureIdToIndex,         \* TextureRegistry::m_idToIndex
    m_aliasToIndex,             \* TextureRegistry::m_aliasToIndex
    m_materials,                \* MaterialRegistry::m_materials (resource ids)
    m_materialIdToIndex,        \* MaterialRegistry::m_idToIndex
    assignedIndex,              \* history: resource id -> the index its first add returned
    m_swapChain,                \* Renderer::m_swapChain: the formats of the swap chain
    oldSwapChain,               \* recreateSwapChain: the formats of the swap chain replaced
    swapChainError,             \* recreateSwapChain threw std::runtime_error
    m_currentLayout,            \* VulkanImage::m_currentLayout of an image on its own
    barriers,                   \* the image barriers recorded for that image, oldest first
    layoutError,                \* a transition of that image threw std::runtime_error
    lastTransition,             \* history: the last transition call and the state it found
    pointLightView,             \* PointLightSystem::update: the point lights of the view, in order
    ubo,                        \* GlobalUbo: pointLights[MAX_LIGHTS] and numLights
    outOfBounds,                \* history: indices written past the end of ubo.pointLights
    lightDistanceSq,            \* PointLightSystem::render: distanceSq of each light of the view
    draws,                      \* the billboard draws recorded, in order (entity per vkCmdDraw)
    availablePresentModes,      \* chooseSwapPresentMode: the modes the surface offers, in order
    presentMode,                \* the mode chooseSwapPresentMode returned ("none" before)
    denoiserConstructed,        \* DenoiserRenderSystem: constructed and not yet destroyed
    m_imageSamplerNearest,      \* the sampler of the last createImages (NoSampler before)
    denoiserImages,             \* the three Unique<VulkanImage> members: alive, m_sampler, extent
    samplerCount,               \* number of samplers m_context.createSampler has handed out
    samplerDestroys,            \* history: vkDestroySampler calls per sampler handle
    destroyedInUse,             \* history: a sampler was destroyed while a live image held it
    m_layers,                   \* LayerStack: the vector, each element with the way it was pushed
    m_layerInsertIndex,         \* LayerStack: size_t; a negative n stands for 2^64 + n
    pushedLayers                \* history: the Layer objects handed to a push so far

tlasUnitVars == <<view, instances, m_meshInstanceData, m_emitters, m_volumes>>
sbtUnitVars == <<rtPipelineProps, m_raygenRegion, m_missRegion, m_hitRegion>>
registryVars == <<started, m_textures, m_textureIdToIndex, m_aliasToIndex, m_materials,
                  m_materialIdToIndex, assignedIndex>>
formatVars == <<m_swapChain, oldSwapChain, swapChainError>>
imageVars == <<m_currentLayout, barriers, layoutError, lastTransition>>
lightVars == <<pointLightView, ubo, outOfBounds>>
billboardVars == <<lightDistanceSq, draws>>
presentModeVars == <<availablePresentModes, presentMode>>
samplerVars == <<denoiserConstructed, m_imageSamplerNearest, denoiserImages,
                 samplerCount, samplerDestroys, destroyedInUse>>
layerVars == <<m_layers, m_layerInsertIndex, pushedLayers>>
unitVars == <<done, tlasUnitVars, sbtUnitVars, registryVars, formatVars, imageVars,
              lightVars,
              billboardVars,
              presentModeVars,
              samplerVars,
              layerVars>>

\* the pipelines of the render systems and the density-regeneration flag
pipelineVars == <<boundPipelines, m_needsRegeneration, pendingRequest, servedRequest,
                  generateDispatches, lastReload, pipelineFault>>

\* the images of the viewport and the sets that point at them
extentVars == <<imageExtent, descriptorImageExtent>>

frameVars == <<pc, swapVars, rendererVars, windowResized, pacingHistory, gfxQueue,
               masterVars, acquireResult, lightUboWritten, onUpdatePrepared, pipelineVars,
               extentVars>>

vars == <<frameVars, unitVars>>

NoFence == <<"none", 0>>

----------------------------------------------------------------------------
(* SwapChain: which sync object each call uses *)

AcquireFenceIndex_Other == (m_currentFrame + 1) % MAX_FRAMES_IN_FLIGHT

\* acquireNextImage waits on m_inFlightFences[m_currentFrame]
AcquireFenceIndex == m_currentFrame

\* submitCommandBuffers resets and submits with m_inFlightFences[m_currentFrame]
SubmitFenceIndex == m_currentFrame

\* acquire signals, and the submit waits on, m_imageAvailableSemaphores[m_currentFrame]
ImageAvailableIndex == m_currentFrame

RenderFinishedIndex_PerFrame(imageIndex) == m_currentFrame

\* the submit signals, and the present waits on, m_renderFinishedSemaphores[*imageIndex]
RenderFinishedIndex(imageIndex) == imageIndex

WaitForFence_NoWait(i) == TRUE

\* vkWaitForFences(..., VK_TRUE, UINT64_MAX) returns once the fence is signaled
WaitForFence(i) == m_inFlightFences[i]

\* m_currentFrame = (m_currentFrame + 1) % MAX_FRAMES_IN_FLIGHT
AdvanceCurrentFrame(f) == (f + 1) % MAX_FRAMES_IN_FLIGHT

AdvanceFrameIndex_Stuck(f) == f

\* m_currentFrameIndex = (m_currentFrameIndex + 1) % MAX_FRAMES_IN_FLIGHT
AdvanceFrameIndex(f) == (f + 1) % MAX_FRAMES_IN_FLIGHT

\* createSyncObjects: fences are created signaled, semaphores unsignaled
CreatedFences == [i \in FrameSlots |-> TRUE]
CreatedImageAvailable == [i \in FrameSlots |-> FALSE]
CreatedRenderFinished == [i \in Images |-> FALSE]

\* history: after a recreation the recorded fences are those of the destroyed chain
Retire(fs) == [k \in 1 .. Len(fs) |-> <<"old", 0>>]

\* history: keep the fences of the last MAX_FRAMES_IN_FLIGHT submissions
Remember(f, fs) == SubSeq(<<f>> \o fs, 1,
                     IF Len(fs) + 1 > MAX_FRAMES_IN_FLIGHT
                     THEN MAX_FRAMES_IN_FLIGHT ELSE Len(fs) + 1)

----------------------------------------------------------------------------
(* Initial state: Application constructed, Application::run about to loop *)

\* number of entities the scene can hold
MaxEntities == 1

Entities == 1 .. MaxEntities
\* a Unique<VulkanBuffer>: nullptr, or a device buffer and what was copied into it
NullBuffer == [created |-> FALSE, data |-> <<>>]
DeviceBuffer(data) == [created |-> TRUE, data |-> data]
LayoutReadOnly == "SHADER_READ_ONLY_OPTIMAL"

\* the record lists of the scene manager before the first createTLAS
TlasUnitIdle ==
    /\ view = <<>>
    /\ instances = <<>>
    /\ m_meshInstanceData = <<>>
    /\ m_emitters = <<>>
    /\ m_volumes = <<>>

\* VkStridedDeviceAddressRegionKHR{}
NoRegion == [deviceAddress |-> 0, stride |-> 0, size |-> 0]

\* the SBT regions before createShaderBindingTable, the properties not queried
SbtUnitIdle ==
    /\ rtPipelineProps =
           [shaderGroupHandleSize |-> 0, shaderGroupHandleAlignment |-> 0,
            shaderGroupBaseAlignment |-> 0]
    /\ m_raygenRegion = NoRegion
    /\ m_missRegion = NoRegion
    /\ m_hitRegion = NoRegion

\* the registries as constructed: nothing registered
RegistriesEmpty ==
    /\ started = FALSE
    /\ m_textures = <<>>
    /\ m_textureIdToIndex = <<>>
    /\ m_aliasToIndex = <<>>
    /\ m_materials = <<>>
    /\ m_materialIdToIndex = <<>>
    /\ assignedIndex = <<>>

\* m_swapChain == nullptr
NullSwapChain == [imageFormat |-> "none", colorSpace |-> "none", depthFormat |-> "none"]

\* Renderer before its constructor calls recreateSwapChain
NoSwapChain ==
    /\ m_swapChain = NullSwapChain
    /\ oldSwapChain = NullSwapChain
    /\ swapChainError = FALSE

NoTransition == [old |-> "none", new |-> "none", recorded |-> 0]

\* an image as created, no transition requested yet
ImageIdle ==
    /\ m_currentLayout = "UNDEFINED"
    /\ barriers = <<>>
    /\ layoutError = FALSE
    /\ lastTransition = NoTransition

\* MAX_LIGHTS of core/constants.hpp
MAX_LIGHTS == 10

\* GlobalUbo before the first update: no light written
UboCleared == [pointLights |-> [i \in 0 .. (MAX_LIGHTS - 1) |-> 0], numLights |-> 0]

LightsIdle ==
    /\ pointLightView = <<>>
    /\ ubo = UboCleared
    /\ outOfBounds = {}

BillboardsIdle ==
    /\ lightDistanceSq = <<>>
    /\ draws = <<>>

PresentModeIdle ==
    /\ availablePresentModes = <<>>
    /\ presentMode = "none"

DenoiserIdle ==
    /\ denoiserConstructed = FALSE
    /\ m_imageSamplerNearest = 0
    /\ denoiserImages =
          [i \in {"accumulation", "temporalHistory", "tempTemporalOutput"} |->
              [alive |-> FALSE, m_sampler |-> 0, extent |-> <<0, 0>>]]
    /\ samplerCount = 0
    /\ samplerDestroys = <<>>
    /\ destroyedInUse = FALSE

LayerStackEmpty ==
    /\ m_layers = <<>>
    /\ m_layerInsertIndex = 0
    /\ pushedLayers = {}

UnitsIdle ==
    /\ done = FALSE
    /\ TlasUnitIdle
    /\ SbtUnitIdle
    /\ RegistriesEmpty
    /\ NoSwapChain
    /\ ImageIdle
    /\ LightsIdle
    /\ BillboardsIdle
    /\ PresentModeIdle
    /\ DenoiserIdle
    /\ LayerStackEmpty

\* the descriptor sets that point at images of the viewport: the storage-image
\* set of the path tracer, m_sceneDescriptorSet of the UI and the filter sets
\* of the denoiser
ViewportSets == {<<"storageImage", 0>>, <<"imgui", 0>>, <<"denoiser", 0>>}

\* the pipelines of the render systems MasterRenderSystem owns
RayTracingPipelines == {"rayTracing", "accumulation", "temporalFilter", "spatialFilter"}
RasterPipelines ==
    {"material", "debugSolid", "debugWireframe", "skybox", "pointLight", "shadowMap"}
DensityPipelines == {"generation", "globalMajorant"}
Pipelines == RayTracingPipelines \cup RasterPipelines \cup DensityPipelines

NoReload == [called |-> FALSE, raytracing |-> FALSE, rebuilt |-> {}]

\* the render systems as constructed: m_needsRegeneration = true is the
\* initial regeneration request
PipelinesIdle ==
    /\ boundPipelines = {}
    /\ m_needsRegeneration = TRUE
    /\ pendingRequest = TRUE
    /\ servedRequest = FALSE
    /\ generateDispatches = 0
    /\ lastReload = NoReload
    /\ pipelineFault = FALSE

\* m_sceneImage, m_offscreenDepthImage, m_offscreenFb and the three images of
\* the denoiser
ViewportImages == {"scene", "depth", "framebuffer", "denoiser"}

\* the frame loop after construction
FrameInit ==
    /\ pc = "idle"
    /\ m_currentFrame = 0
    /\ m_currentFrameIndex = 0
    /\ m_isFrameStarted = FALSE
    /\ m_currentImageIndex = 0
    /\ m_inFlightFences = CreatedFences
    /\ m_imageAvailableSemaphores = CreatedImageAvailable
    /\ m_renderFinishedSemaphores = CreatedRenderFinished
    /\ swapImages = [i \in Images |-> "free"]
    /\ gfxQueue = <<>>
    /\ presentQueue = <<>>
    /\ windowResized = FALSE
    /\ swapChainExtent = 0
    /\ m_isRaytracingEnabled = TRUE
    /\ m_isDenoisingEnabled = TRUE
    /\ m_isDebugEnabled = FALSE
    /\ m_isReloadShadersButtonPressed = FALSE
    /\ m_lastFrameSwapChainExtent = 0
    /\ sceneImageLayout = LayoutReadOnly
    /\ scene \in SUBSET Entities
    /\ m_meshInstanceBuffer = NullBuffer
    /\ m_emittersBuffer = NullBuffer
    /\ m_volumesBuffer = NullBuffer
    /\ m_tlas = 0
    /\ newTlas = 0
    /\ m_tlasBuffer = 0
    /\ liveTlas = {}
    /\ tlasDescriptor = 0
    /\ boundSets = {}
    /\ waitedFence = NoFence
    /\ lastSubmits = <<>>
    /\ semFault = FALSE
    /\ viewportRecreated = FALSE
    /\ descriptorFault = FALSE
    /\ tlasFault = FALSE
    /\ acquireResult = "none"
    /\ lightUboWritten = FALSE
    /\ onUpdatePrepared = "none"
    /\ PipelinesIdle
    /\ imageExtent = [i \in ViewportImages |-> 0]
    /\ descriptorImageExtent = [d \in ViewportSets |-> 0]

Init ==
    /\ UnitsIdle
    /\ FrameInit

----------------------------------------------------------------------------
(* The device: the graphics queue and the presentation engine *)

TlasSet == <<"tlas", 0>>

\* The oldest submission finishes: its wait semaphore is consumed, its signal
\* semaphore and its fence are signaled.  Submissions to one queue that signal
\* a fence finish in submission order.
GpuComplete ==
    /\ gfxQueue # <<>>
    /\ LET h == Head(gfxQueue) IN
        /\ m_imageAvailableSemaphores[h.waitSem]
        /\ m_imageAvailableSemaphores' =
               [m_imageAvailableSemaphores EXCEPT ![h.waitSem] = FALSE]
        /\ m_renderFinishedSemaphores' =
               [m_renderFinishedSemaphores EXCEPT ![h.signalSem] = TRUE]
        /\ semFault' = (semFault \/ m_renderFinishedSemaphores[h.signalSem])
        /\ m_inFlightFences' = [m_inFlightFences EXCEPT ![h.fence] = TRUE]
    /\ gfxQueue' = Tail(gfxQueue)
    /\ UNCHANGED <<pc, m_currentFrame, swapImages, presentQueue, swapChainExtent,
                   rendererVars, windowResized, waitedFence, lastSubmits, masterVars>>
    /\ UNCHANGED unitVars
    /\ UNCHANGED acquireResult
    /\ UNCHANGED lightUboWritten
    /\ UNCHANGED onUpdatePrepared
    /\ UNCHANGED pipelineVars
    /\ UNCHANGED extentVars

\* The presentation engine executes the oldest present request: it consumes the
\* semaphore the request waits on and afterwards releases the image.
PresentComplete ==
    /\ presentQueue # <<>>
    /\ LET p == Head(presentQueue) IN
        /\ m_renderFinishedSemaphores[p.sem]
        /\ m_renderFinishedSemaphores' =
               [m_renderFinishedSemaphores EXCEPT ![p.sem] = FALSE]
        /\ swapImages' = [swapImages EXCEPT ![p.img] = "free"]
    /\ presentQueue' = Tail(presentQueue)
    /\ UNCHANGED <<pc, m_currentFrame, m_inFlightFences, m_imageAvailableSemaphores,
                   swapChainExtent, gfxQueue, rendererVars, windowResized,
                   pacingHistory, masterVars>>
    /\ UNCHANGED unitVars
    /\ UNCHANGED acquireResult
    /\ UNCHANGED lightUboWritten
    /\ UNCHANGED onUpdatePrepared
    /\ UNCHANGED pipelineVars
    /\ UNCHANGED extentVars

\* vkDeviceWaitIdle returns once every queue of the device is idle
DeviceIdle == gfxQueue = <<>> /\ presentQueue = <<>>

\* glfwPollEvents: the framebuffer-resize callback of the window
WindowResize ==
    /\ pc = "idle"
    /\ windowResized' = TRUE
    /\ UNCHANGED <<pc, swapVars, rendererVars, pacingHistory, gfxQueue, masterVars>>
    /\ UNCHANGED unitVars
    /\ UNCHANGED acquireResult
    /\ UNCHANGED lightUboWritten
    /\ UNCHANGED onUpdatePrepared
    /\ UNCHANGED pipelineVars
    /\ UNCHANGED extentVars

----------------------------------------------------------------------------
(* Renderer and SwapChain *)

\* Renderer::beginFrame with SwapChain::acquireNextImage
\* beginFrame: result == VK_ERROR_OUT_OF_DATE_KHR recreates the swap chain and
\* returns nullptr
AcquireDiscardsFrame_Never(result) == FALSE
AcquireDiscardsFrame(result) == result = "OUT_OF_DATE"

BeginFrame ==
    /\ pc = "idle"
    /\ ~m_isFrameStarted
    /\ WaitForFence(AcquireFenceIndex)
    /\ \E result \in AcquireResults :
        /\ acquireResult' = result
        /\ IF AcquireDiscardsFrame(result)
           THEN /\ pc' = "recreateInBegin"
                /\ UNCHANGED <<swapVars, rendererVars, pacingHistory>>
           ELSE \E img \in Images :
                /\ swapImages[img] = "free"
                /\ swapImages' = [swapImages EXCEPT ![img] = "acquired"]
                /\ m_imageAvailableSemaphores' =
                       [m_imageAvailableSemaphores EXCEPT ![ImageAvailableIndex] = TRUE]
                /\ semFault' = (semFault \/ m_imageAvailableSemaphores[ImageAvailableIndex])
                /\ m_currentImageIndex' = img
                /\ m_isFrameStarted' = TRUE
                /\ waitedFence' = <<"cur", AcquireFenceIndex>>
                /\ pc' = "update"
                /\ UNCHANGED <<m_currentFrame, m_inFlightFences, m_renderFinishedSemaphores,
                               presentQueue, swapChainExtent, m_currentFrameIndex, lastSubmits>>
    /\ UNCHANGED <<windowResized, gfxQueue, masterVars>>
    /\ UNCHANGED unitVars
    /\ UNCHANGED lightUboWritten
    /\ UNCHANGED onUpdatePrepared
    /\ UNCHANGED pipelineVars
    /\ UNCHANGED extentVars

FrameStartedAfterEndFrame_Kept == TRUE

\* endFrame, after the swap chain was recreated or not: m_isFrameStarted = false
FrameStartedAfterEndFrame == FALSE

\* Renderer::endFrame with SwapChain::submitCommandBuffers
EndFrame ==
    /\ pc = "endFrame"
    /\ m_isFrameStarted
    /\ WaitForFence(SubmitFenceIndex)
    /\ Len(gfxQueue) < MaxQueue
    /\ m_inFlightFences' = [m_inFlightFences EXCEPT ![SubmitFenceIndex] = FALSE]
    /\ gfxQueue' = Append(gfxQueue,
            [slot |-> m_currentFrameIndex,
             fence |-> SubmitFenceIndex,
             waitSem |-> ImageAvailableIndex,
             signalSem |-> RenderFinishedIndex(m_currentImageIndex),
             img |-> m_currentImageIndex,
             sets |-> boundSets,
             pipelines |-> boundPipelines,
             tlas |-> IF TlasSet \in boundSets THEN tlasDescriptor ELSE 0])
    /\ presentQueue' = Append(presentQueue,
            [img |-> m_currentImageIndex,
             sem |-> RenderFinishedIndex(m_currentImageIndex)])
    /\ swapImages' = [swapImages EXCEPT ![m_currentImageIndex] = "presenting"]
    /\ lastSubmits' = Remember(<<"cur", SubmitFenceIndex>>, lastSubmits)
    /\ m_currentFrame' = AdvanceCurrentFrame(m_currentFrame)
    /\ \E result \in PresentResults :
        IF result = "OUT_OF_DATE" \/ result = "SUBOPTIMAL" \/ windowResized
        THEN /\ windowResized' = FALSE
             /\ pc' = "recreateInEnd"
             /\ UNCHANGED <<m_isFrameStarted, m_currentFrameIndex>>
        ELSE /\ m_isFrameStarted' = FrameStartedAfterEndFrame
             /\ m_currentFrameIndex' = AdvanceFrameIndex(m_currentFrameIndex)
             /\ pc' = "idle"
             /\ UNCHANGED windowResized
    /\ boundSets' = {}
    /\ viewportRecreated' = FALSE
    /\ waitedFence' = NoFence
    /\ UNCHANGED <<m_imageAvailableSemaphores, m_renderFinishedSemaphores,
                   swapChainExtent, m_currentImageIndex,
                   semFault, flagVars, m_lastFrameSwapChainExtent,
                   sceneImageLayout, scene, ssboVars, tlasVars, faultVars>>
    /\ UNCHANGED unitVars
    /\ UNCHANGED acquireResult
    /\ lightUboWritten' = FALSE
    /\ onUpdatePrepared' = "none"
    /\ boundPipelines' = {}
    /\ servedRequest' = FALSE
    /\ generateDispatches' = 0
    /\ lastReload' = NoReload
    /\ UNCHANGED <<m_needsRegeneration, pendingRequest, pipelineFault>>
    /\ UNCHANGED extentVars

\* Renderer::recreateSwapChain, entered from beginFrame or from endFrame, and the
\* rest of the caller: vkDeviceWaitIdle, then a new SwapChain of the extent the
\* window has by now replaces the old one
RecreateSwapChain ==
    /\ pc \in {"recreateInBegin", "recreateInEnd"}
    /\ DeviceIdle
    /\ swapChainExtent' \in Extents
    /\ m_currentFrame' = 0
    /\ m_inFlightFences' = CreatedFences
    /\ m_imageAvailableSemaphores' = CreatedImageAvailable
    /\ m_renderFinishedSemaphores' = CreatedRenderFinished
    /\ swapImages' = [i \in Images |-> "free"]
    /\ lastSubmits' = Retire(lastSubmits)
    /\ IF pc = "recreateInEnd"
       THEN /\ m_isFrameStarted' = FrameStartedAfterEndFrame
            /\ m_currentFrameIndex' = AdvanceFrameIndex(m_currentFrameIndex)
       ELSE UNCHANGED <<m_isFrameStarted, m_currentFrameIndex>>
    /\ pc' = "idle"
    /\ UNCHANGED <<presentQueue, gfxQueue, m_currentImageIndex, windowResized,
                   waitedFence, semFault, masterVars>>
    /\ UNCHANGED unitVars
    /\ acquireResult' = "none"
    /\ UNCHANGED lightUboWritten
    /\ UNCHANGED onUpdatePrepared
    /\ UNCHANGED pipelineVars
    /\ UNCHANGED extentVars

\* a client of the Renderer that records its frame without waiting for the GPU
RecordFrame ==
    /\ pc = "update"
    /\ pc' = "endFrame"
    /\ UNCHANGED <<swapVars, rendererVars, windowResized, pacingHistory, gfxQueue,
                   masterVars>>
    /\ UNCHANGED unitVars
    /\ acquireResult' = "none"
    /\ UNCHANGED lightUboWritten
    /\ UNCHANGED onUpdatePrepared
    /\ UNCHANGED pipelineVars
    /\ UNCHANGED extentVars

NextPacing ==
    \/ BeginFrame
    \/ RecordFrame
    \/ EndFrame
    \/ RecreateSwapChain
    \/ WindowResize
    \/ GpuComplete
    \/ PresentComplete

SpecPacing == Init /\ [][NextPacing]_vars

----------------------------------------------------------------------------
(* Frame pacing and swap-chain synchronisation: properties of SpecPacing *)

\* a frame is between beginFrame's return and its queue submit
FrameRecording == m_isFrameStarted /\ pc # "recreateInEnd"

\* the started frame is at least the third one: two earlier frames were submitted
HasTwoEarlierFrames == FrameRecording /\ Len(lastSubmits) >= MAX_FRAMES_IN_FLIGHT

\* C1 as stated: in every run, while frame i records, the fence it waited on in
\* acquireNextImage is the fence frame i-2 passed to the queue submit, and
\* frame i-2 has finished.
C1_SameFenceInEveryRun ==
    HasTwoEarlierFrames =>
        /\ waitedFence = lastSubmits[2]
        /\ Len(gfxQueue) < 2

\* C1 amended: while frame i records, frame i-2 has finished; and if the swap
\* chain was not recreated since frame i-2 was submitted, the fence frame i
\* waited on in acquireNextImage is the fence frame i-2 passed to the submit.
C1_FramePacing ==
    HasTwoEarlierFrames =>
        /\ Len(gfxQueue) < 2
        /\ (lastSubmits[2][1] = "cur" => waitedFence = lastSubmits[2])

\* frame i records while frame i-1 still executes, having waited on the fence
\* of frame i-2
C1_Witness ==
    /\ HasTwoEarlierFrames
    /\ lastSubmits[2][1] = "cur"
    /\ waitedFence = lastSubmits[2]
    /\ Len(gfxQueue) = 1

\* C2: while a frame records into the command buffer of frame index f, no
\* unfinished submission uses the command buffer of index f; this includes runs
\* in which beginFrame returned null and runs in which the swap chain was
\* recreated, after which SwapChain::m_currentFrame restarts at 0 while
\* Renderer::m_currentFrameIndex keeps its value.
C2_CommandBufferIdle ==
    FrameRecording =>
        \A k \in 1 .. Len(gfxQueue) : gfxQueue[k].slot # m_currentFrameIndex

\* a frame records while the previous one executes and the two counters differ
C2_Witness ==
    /\ FrameRecording
    /\ m_currentFrame # m_currentFrameIndex
    /\ gfxQueue # <<>>

\* C3: at most MAX_FRAMES_IN_FLIGHT = 2 submitted frames are unfinished at any
\* time (a third one is never submitted while two earlier ones execute).
C3_AtMostTwoInFlight == Len(gfxQueue) <= 2

\* two frames execute while the loop is about to begin a third
C3_Witness == Len(gfxQueue) = 2 /\ pc = "idle" /\ ~m_isFrameStarted

\* C4: no binary semaphore is signalled while it is signalled: the
\* image-available semaphore a frame's acquire signals is the one that frame's
\* submit waits on, the render-finished semaphore a submit signals is the one
\* that frame's present waits on, pending operations never share a semaphore,
\* and a signalled semaphore always has its waiter pending.
C4_SemaphoresPaired ==
    /\ ~semFault
    /\ \A i, j \in 1 .. Len(gfxQueue) :
         i # j => /\ gfxQueue[i].waitSem # gfxQueue[j].waitSem
                  /\ gfxQueue[i].signalSem # gfxQueue[j].signalSem
    /\ \A i, j \in 1 .. Len(presentQueue) :
         i # j => presentQueue[i].sem # presentQueue[j].sem
    /\ \A k \in 1 .. Len(gfxQueue) :
         \E j \in 1 .. Len(presentQueue) :
            /\ presentQueue[j].img = gfxQueue[k].img
            /\ presentQueue[j].sem = gfxQueue[k].signalSem
    /\ FrameRecording => m_imageAvailableSemaphores[m_currentFrame]
    /\ \A s \in FrameSlots :
         m_imageAvailableSemaphores[s] =>
            \/ FrameRecording /\ m_currentFrame = s
            \/ \E k \in 1 .. Len(gfxQueue) : gfxQueue[k].waitSem = s
    /\ \A r \in Images :
         m_renderFinishedSemaphores[r] =>
            \E j \in 1 .. Len(presentQueue) : presentQueue[j].sem = r

\* images come back out of order: a frame whose image index differs from its
\* frame index has finished and waits for its present, behind another present
C4_Witness ==
    /\ Len(presentQueue) >= 2
    /\ \E j \in 1 .. Len(presentQueue) :
         /\ m_renderFinishedSemaphores[presentQueue[j].sem]
         /\ presentQueue[j].img >= MAX_FRAMES_IN_FLIGHT
    /\ FrameRecording

----------------------------------------------------------------------------
(* VulkanImage: the tracked layout *)

OldLayoutsHandled ==
    {"UNDEFINED", "PREINITIALIZED", "COLOR_ATTACHMENT_OPTIMAL",
     "DEPTH_STENCIL_ATTACHMENT_OPTIMAL", "TRANSFER_SRC_OPTIMAL",
     "TRANSFER_DST_OPTIMAL", "SHADER_READ_ONLY_OPTIMAL", "GENERAL"}

NewLayoutsHandled ==
    {"TRANSFER_DST_OPTIMAL", "TRANSFER_SRC_OPTIMAL", "COLOR_ATTACHMENT_OPTIMAL",
     "DEPTH_STENCIL_ATTACHMENT_OPTIMAL", "SHADER_READ_ONLY_OPTIMAL", "GENERAL"}

\* both transition functions throw on a layout their switches do not handle
TransitionThrows_OldOnly(old, new) == old \notin OldLayoutsHandled
TransitionThrows(old, new) == old \notin OldLayoutsHandled \/ new \notin NewLayoutsHandled

\* VulkanImage::transitionImageLayout: m_currentLayout after the call
TransitionImageLayout(old, new) == IF TransitionThrows(old, new) THEN old ELSE new

\* VulkanImage::transitionImageLayoutSingleTimeCmd: m_currentLayout after the call
TransitionImageLayoutSingleTimeCmd(old, new) ==
    IF TransitionThrows(old, new) THEN old ELSE new

\* MasterRenderSystem::createSceneImage: a new image, created UNDEFINED and
\* transitioned once to SHADER_READ_ONLY_OPTIMAL
CreateSceneImage == TransitionImageLayoutSingleTimeCmd("UNDEFINED", LayoutReadOnly)

\* MasterRenderSystem::createRenderPass: the colour attachment of the offscreen pass
OffscreenInitialLayout == "SHADER_READ_ONLY_OPTIMAL"
OffscreenFinalLayout_Color == "COLOR_ATTACHMENT_OPTIMAL"

OffscreenFinalLayout == "SHADER_READ_ONLY_OPTIMAL"

RayTracingUpdateLayout_ReadOnly == "SHADER_READ_ONLY_OPTIMAL"

\* the layout RayTracingRenderSystem::update transitions the scene image to
RayTracingUpdateLayout == "GENERAL"

----------------------------------------------------------------------------
(* Descriptor sets and what pending frames reference *)

MeshInstanceSet == <<"meshInstance", 0>>
EmittersSet == <<"emitters", 0>>
VolumesSet == <<"volumes", 0>>
DenoiserSet == <<"denoiser", 0>>
StorageImageSet == <<"storageImage", 0>>
ImguiSet == <<"imgui", 0>>
MaterialSet(frameIndex) == <<"material", frameIndex>>

\* descriptor sets bound by submissions the GPU has not finished
PendingSets == UNION {gfxQueue[k].sets : k \in 1 .. Len(gfxQueue)}

\* acceleration structures traced by submissions the GPU has not finished
PendingTlas == {gfxQueue[k].tlas : k \in 1 .. Len(gfxQueue)} \ {0}

SingleTimeSubmitDone_NoWait == TRUE

\* Context::endSingleTimeCommands / Context::copyBuffer have returned: the
\* one-shot command buffer was submitted to the graphics queue and waited for,
\* so every earlier submission to that queue has finished too
SingleTimeSubmitDone == gfxQueue = <<>>

----------------------------------------------------------------------------
(* The scene as RayTracingSceneManagerSystem::createTLAS reads it *)

\* the view over the entities, in iteration order
RECURSIVE ViewOf(_)
ViewOf(S) ==
    IF S = {} THEN <<>>
    ELSE LET e == CHOOSE x \in S : \A y \in S : x <= y
         IN <<e>> \o ViewOf(S \ {e})

\* odd entities carry an emissive material, even ones a volume
IsEmitter(e) == e % 2 = 1
HasVolume(e) == e % 2 = 0

RECURSIVE Filter(_, _)
Filter(q, T) ==
    IF q = <<>> THEN <<>>
    ELSE IF Head(q) \in T THEN <<Head(q)>> \o Filter(Tail(q), T)
    ELSE Filter(Tail(q), T)

\* m_meshInstanceData, m_emitters and m_volumes as the entity loop fills them
MeshInstanceData(sc) == ViewOf(sc)
EmitterData(sc) == Filter(ViewOf(sc), {e \in sc : IsEmitter(e)})
VolumeData(sc) == Filter(ViewOf(sc), {e \in sc : HasVolume(e)})

\* Scene::onUpdate: scripts add and remove entities between frames
SceneUpdate ==
    /\ pc = "idle"
    /\ scene' \in (SUBSET Entities) \ {scene}
    /\ UNCHANGED <<pc, swapVars, rendererVars, windowResized, pacingHistory, gfxQueue,
                   flagVars, viewportVars, ssboVars, tlasVars, boundSets, faultVars>>
    /\ UNCHANGED unitVars
    /\ UNCHANGED acquireResult
    /\ UNCHANGED lightUboWritten
    /\ UNCHANGED onUpdatePrepared
    /\ UNCHANGED pipelineVars
    /\ UNCHANGED extentVars

----------------------------------------------------------------------------
(* MasterRenderSystem::onUpdate *)

deviceVars == <<swapVars, rendererVars, windowResized, pacingHistory, gfxQueue>>

\* number of acceleration structure handles the driver hands out
MaxTlasHandles == 3

TlasHandles == 1 .. MaxTlasHandles

\* position after a layout transition: an unhandled layout throws out of the loop
AfterTransition(old, new, next) == IF TransitionThrows(old, new) THEN "terminated" ELSE next

RepointedSets_ImguiOnly == {ImguiSet}

\* the sets rewritten after a resize: updateImguiDescriptorSet in
\* recreateViewportResources, then RayTracingRenderSystem::updateSceneImage
RepointedSets == {StorageImageSet, ImguiSet}

\* onUpdate, the viewport check: when the swap-chain extent is not the last
\* recorded one, recreateViewportResources builds the scene image, the depth
\* image and the framebuffer at the extent of the swap chain and repoints the
\* UI set, updateSceneImage repoints the storage-image set, and updateImages
\* builds the denoiser images at that extent
ViewportResize ==
    IF swapChainExtent # m_lastFrameSwapChainExtent
    THEN /\ sceneImageLayout' = CreateSceneImage
         /\ descriptorFault' = (descriptorFault \/ StorageImageSet \in PendingSets)
         /\ imageExtent' = [i \in ViewportImages |-> swapChainExtent]
         /\ descriptorImageExtent' =
                [d \in ViewportSets |->
                    IF d \in RepointedSets
                    THEN swapChainExtent
                    ELSE descriptorImageExtent[d]]
         /\ m_lastFrameSwapChainExtent' = swapChainExtent
         /\ viewportRecreated' = TRUE
    ELSE UNCHANGED <<sceneImageLayout, descriptorFault, m_lastFrameSwapChainExtent,
                     viewportRecreated, extentVars>>

\* onUpdate up to the reload check: when the swap-chain extent changed,
\* recreateViewportResources (vkDeviceWaitIdle, then a new scene image) and
\* RayTracingRenderSystem::updateSceneImage, which rewrites the storage-image
\* set; when the reload button was pressed, reloadShaders (vkDeviceWaitIdle,
\* then new pipelines)
OnUpdateViewport ==
    /\ pc = "update"
    /\ (swapChainExtent # m_lastFrameSwapChainExtent \/ m_isReloadShadersButtonPressed)
           => DeviceIdle
    /\ ViewportResize
    /\ m_isReloadShadersButtonPressed' = FALSE
    /\ pc' = "lights"
    /\ UNCHANGED <<deviceVars, m_isRaytracingEnabled, m_isDenoisingEnabled,
                   m_isDebugEnabled, scene, ssboVars, tlasVars, boundSets, tlasFault>>
    /\ UNCHANGED unitVars
    /\ acquireResult' = "none"
    /\ UNCHANGED lightUboWritten
    /\ UNCHANGED onUpdatePrepared
    /\ UNCHANGED pipelineVars

\* onUpdate from the camera matrices to ShadowMapRenderSystem::update:
\* PointLightSystem::update fills the lights of the ubo, and
\* ShadowMapRenderSystem::update copies them into this frame's buffer of
\* m_lightUniformBuffers (writeToBuffer, flush).  Neither call is under a
\* condition.
UpdateLights ==
    /\ pc = "lights"
    /\ lightUboWritten' = TRUE
    /\ UNCHANGED onUpdatePrepared
    /\ UNCHANGED pipelineVars
    /\ UNCHANGED extentVars
    /\ pc' = "material"
    /\ UNCHANGED <<swapVars, rendererVars, windowResized, pacingHistory, gfxQueue,
                   masterVars, acquireResult, pipelineVars, extentVars>>
    /\ UNCHANGED unitVars

\* MaterialRegistry::updateDescriptorSet(frameIndex): the materials are staged,
\* copied into this frame's buffer (copyBuffer) and this frame's set is written
UpdateMaterialDescriptorSet ==
    /\ pc = "material"
    /\ SingleTimeSubmitDone
    /\ descriptorFault' =
           (descriptorFault \/ MaterialSet(m_currentFrameIndex) \in PendingSets)
    /\ pc' = IF m_isRaytracingEnabled THEN "createTLAS" ELSE "render"
    /\ UNCHANGED <<deviceVars, flagVars, viewportVars, scene, ssboVars, tlasVars,
                   boundSets, tlasFault>>
    /\ UNCHANGED unitVars
    /\ UNCHANGED acquireResult
    /\ UNCHANGED lightUboWritten
    /\ onUpdatePrepared' = IF m_isRaytracingEnabled THEN onUpdatePrepared ELSE "raster"
    /\ UNCHANGED pipelineVars
    /\ UNCHANGED extentVars

\* createTLAS up to vkCreateAccelerationStructureKHR.  The three
\* update...DescriptorSet calls return at once when their buffer exists, else
\* upload the records (copyBuffer) and write their set; the instances are
\* copied to the device (copyBuffer); then m_tlasBuffer is replaced, which frees
\* the buffer behind the previous TLAS, and the new structure is created in it
CreateTLAS_Build ==
    /\ pc = "createTLAS"
    /\ SingleTimeSubmitDone
    /\ IF m_meshInstanceBuffer = NullBuffer
       THEN /\ m_meshInstanceBuffer' = DeviceBuffer(MeshInstanceData(scene))
            /\ m_emittersBuffer' = DeviceBuffer(EmitterData(scene))
            /\ m_volumesBuffer' = DeviceBuffer(VolumeData(scene))
            /\ descriptorFault' =
                   (descriptorFault
                    \/ {MeshInstanceSet, EmittersSet, VolumesSet} \cap PendingSets # {})
       ELSE UNCHANGED <<m_meshInstanceBuffer, m_emittersBuffer, m_volumesBuffer,
                        descriptorFault>>
    /\ \E h \in TlasHandles :
        /\ h \notin liveTlas \cup PendingTlas \cup {tlasDescriptor, m_tlas}
        /\ \A g \in TlasHandles :
             g < h => g \in liveTlas \cup PendingTlas \cup {tlasDescriptor, m_tlas}
        /\ newTlas' = h
        /\ m_tlasBuffer' = h
        /\ liveTlas' = liveTlas \cup {h}
    /\ tlasFault' = (tlasFault \/ (m_tlasBuffer # 0 /\ m_tlasBuffer \in PendingTlas))
    /\ pc' = "tlasWrite"
    /\ UNCHANGED <<deviceVars, flagVars, viewportVars, scene, m_tlas, tlasDescriptor,
                   boundSets>>
    /\ UNCHANGED unitVars
    /\ UNCHANGED acquireResult
    /\ UNCHANGED lightUboWritten
    /\ UNCHANGED onUpdatePrepared
    /\ UNCHANGED pipelineVars
    /\ UNCHANGED extentVars

UpdateTLASDescriptorSetArg_Member == m_tlas

\* the handle createTLAS passes to updateTLASDescriptorSet
UpdateTLASDescriptorSetArg == newTlas

\* createTLAS, after the build was submitted and waited for
\* (endSingleTimeCommands): updateTLASDescriptorSet(newTlas)
UpdateTLASDescriptorSet ==
    /\ pc = "tlasWrite"
    /\ SingleTimeSubmitDone
    /\ tlasDescriptor' = UpdateTLASDescriptorSetArg
    /\ descriptorFault' = (descriptorFault \/ TlasSet \in PendingSets)
    /\ pc' = "tlasDestroy"
    /\ UNCHANGED <<deviceVars, flagVars, viewportVars, scene, ssboVars, m_tlas,
                   newTlas, m_tlasBuffer, liveTlas, boundSets, tlasFault>>
    /\ UNCHANGED unitVars
    /\ UNCHANGED acquireResult
    /\ UNCHANGED lightUboWritten
    /\ UNCHANGED onUpdatePrepared
    /\ UNCHANGED pipelineVars
    /\ UNCHANGED extentVars

\* createTLAS, the end: destroyTLAS() destroys the previous handle if there is
\* one, then m_tlas = newTlas
DestroyTLAS ==
    /\ pc = "tlasDestroy"
    /\ liveTlas' = IF m_tlas # 0 THEN liveTlas \ {m_tlas} ELSE liveTlas
    /\ tlasFault' = (tlasFault \/ (m_tlas # 0 /\ m_tlas \in PendingTlas))
    /\ m_tlas' = newTlas
    /\ newTlas' = 0
    /\ pc' = "toGeneral"
    /\ UNCHANGED <<deviceVars, flagVars, viewportVars, scene, ssboVars, m_tlasBuffer,
                   tlasDescriptor, boundSets, descriptorFault>>
    /\ UNCHANGED unitVars
    /\ UNCHANGED acquireResult
    /\ UNCHANGED lightUboWritten
    /\ UNCHANGED onUpdatePrepared
    /\ UNCHANGED pipelineVars
    /\ UNCHANGED extentVars

\* RayTracingRenderSystem::update after createTLAS: the scene image is
\* transitioned to GENERAL in the frame's command buffer
RayTracingUpdateTransition ==
    /\ pc = "toGeneral"
    /\ sceneImageLayout' = TransitionImageLayout(sceneImageLayout, RayTracingUpdateLayout)
    /\ pc' = AfterTransition(sceneImageLayout, RayTracingUpdateLayout, "render")
    /\ UNCHANGED <<deviceVars, flagVars, m_lastFrameSwapChainExtent, viewportRecreated,
                   scene, ssboVars, tlasVars, boundSets, faultVars>>
    /\ UNCHANGED unitVars
    /\ UNCHANGED acquireResult
    /\ UNCHANGED lightUboWritten
    /\ onUpdatePrepared' = "raytracing"
    /\ UNCHANGED pipelineVars
    /\ UNCHANGED extentVars

----------------------------------------------------------------------------
(* MasterRenderSystem::doRenderPasses *)

DoRenderPassesRaytracing_Always == TRUE

\* doRenderPasses: if (m_isRaytracingEnabled), read before updateUi runs
DoRenderPassesRaytracing == m_isRaytracingEnabled

\* RayTracingRenderSystem::render: binds the TLAS, material, mesh-instance,
\* emitter, volume and storage-image sets and traces the rays
RayTrace ==
    /\ pc = "render"
    /\ DoRenderPassesRaytracing
    /\ boundSets' = boundSets \cup {TlasSet, MaterialSet(m_currentFrameIndex),
                                    MeshInstanceSet, EmittersSet, VolumesSet,
                                    StorageImageSet}
    /\ pc' = "afterTrace"
    /\ UNCHANGED <<deviceVars, flagVars, viewportVars, scene, ssboVars, tlasVars,
                   faultVars>>
    /\ UNCHANGED unitVars
    /\ UNCHANGED acquireResult
    /\ UNCHANGED lightUboWritten
    /\ UNCHANGED onUpdatePrepared
    /\ UNCHANGED pipelineVars
    /\ UNCHANGED extentVars

\* transitionImageToShaderReadOnlyOptimal after the path tracer
TransitionAfterRayTracing ==
    /\ pc = "afterTrace"
    /\ sceneImageLayout' = TransitionImageLayout(sceneImageLayout, LayoutReadOnly)
    /\ pc' = AfterTransition(sceneImageLayout, LayoutReadOnly,
                             IF m_isDenoisingEnabled THEN "denoise" ELSE "ui")
    /\ UNCHANGED <<deviceVars, flagVars, m_lastFrameSwapChainExtent, viewportRecreated,
                   scene, ssboVars, tlasVars, boundSets, faultVars>>
    /\ UNCHANGED unitVars
    /\ UNCHANGED acquireResult
    /\ UNCHANGED lightUboWritten
    /\ UNCHANGED onUpdatePrepared
    /\ UNCHANGED pipelineVars
    /\ UNCHANGED extentVars

\* DenoiserRenderSystem::denoise up to the copy: the three filter sets are
\* written and bound, the filters sample the scene image, and
\* copyDenoisedIntoSceneImage transitions the scene image to TRANSFER_DST
Denoise ==
    /\ pc = "denoise"
    /\ descriptorFault' = (descriptorFault \/ DenoiserSet \in PendingSets)
    /\ boundSets' = boundSets \cup {DenoiserSet}
    /\ sceneImageLayout' = TransitionImageLayout(sceneImageLayout, "TRANSFER_DST_OPTIMAL")
    /\ pc' = AfterTransition(sceneImageLayout, "TRANSFER_DST_OPTIMAL", "copy")
    /\ UNCHANGED <<deviceVars, flagVars, m_lastFrameSwapChainExtent, viewportRecreated,
                   scene, ssboVars, tlasVars, tlasFault>>
    /\ UNCHANGED unitVars
    /\ UNCHANGED acquireResult
    /\ UNCHANGED lightUboWritten
    /\ UNCHANGED onUpdatePrepared
    /\ UNCHANGED pipelineVars
    /\ descriptorImageExtent' =
           [descriptorImageExtent EXCEPT ![DenoiserSet] = imageExtent["denoiser"]]
    /\ UNCHANGED imageExtent

\* copyDenoisedIntoSceneImage: vkCmdCopyImage from the history image
CopyDenoised ==
    /\ pc = "copy"
    /\ pc' = "afterDenoise"
    /\ UNCHANGED <<deviceVars, masterVars>>
    /\ UNCHANGED unitVars
    /\ UNCHANGED acquireResult
    /\ UNCHANGED lightUboWritten
    /\ UNCHANGED onUpdatePrepared
    /\ UNCHANGED pipelineVars
    /\ UNCHANGED extentVars

\* transitionImageToShaderReadOnlyOptimal after the denoiser
TransitionAfterDenoise ==
    /\ pc = "afterDenoise"
    /\ sceneImageLayout' = TransitionImageLayout(sceneImageLayout, LayoutReadOnly)
    /\ pc' = AfterTransition(sceneImageLayout, LayoutReadOnly, "ui")
    /\ UNCHANGED <<deviceVars, flagVars, m_lastFrameSwapChainExtent, viewportRecreated,
                   scene, ssboVars, tlasVars, boundSets, faultVars>>
    /\ UNCHANGED unitVars
    /\ UNCHANGED acquireResult
    /\ UNCHANGED lightUboWritten
    /\ UNCHANGED onUpdatePrepared
    /\ UNCHANGED pipelineVars
    /\ UNCHANGED extentVars

\* rasterisation: the shadow passes, then Renderer::beginRenderPass on the
\* offscreen framebuffer sets the tracked layout to the pass's initial layout
BeginOffscreenRenderPass ==
    /\ pc = "render"
    /\ ~DoRenderPassesRaytracing
    /\ sceneImageLayout' = OffscreenInitialLayout
    /\ pc' = "offscreen"
    /\ UNCHANGED <<deviceVars, flagVars, m_lastFrameSwapChainExtent, viewportRecreated,
                   scene, ssboVars, tlasVars, boundSets, faultVars>>
    /\ UNCHANGED unitVars
    /\ UNCHANGED acquireResult
    /\ UNCHANGED lightUboWritten
    /\ UNCHANGED onUpdatePrepared
    /\ UNCHANGED pipelineVars
    /\ UNCHANGED extentVars

\* skybox, debug or material pass, point lights, then Renderer::endRenderPass
\* sets the tracked layout to the pass's final layout
EndOffscreenRenderPass ==
    /\ pc = "offscreen"
    /\ sceneImageLayout' = OffscreenFinalLayout
    /\ pc' = "ui"
    /\ UNCHANGED <<deviceVars, flagVars, m_lastFrameSwapChainExtent, viewportRecreated,
                   scene, ssboVars, tlasVars, boundSets, faultVars>>
    /\ UNCHANGED unitVars
    /\ UNCHANGED acquireResult
    /\ UNCHANGED lightUboWritten
    /\ UNCHANGED onUpdatePrepared
    /\ UNCHANGED pipelineVars
    /\ UNCHANGED extentVars

\* MasterRenderSystem::updateUi: the check boxes and the reload button; the
\* denoising check box is shown only while ray tracing is enabled
UpdateUi ==
    /\ pc = "ui"
    /\ m_isRaytracingEnabled' \in BOOLEAN
    /\ IF m_isRaytracingEnabled'
       THEN m_isDenoisingEnabled' \in BOOLEAN
       ELSE UNCHANGED m_isDenoisingEnabled
    /\ m_isReloadShadersButtonPressed' \in BOOLEAN
    /\ m_isDebugEnabled' \in BOOLEAN
    /\ pc' = "swapChainPass"
    /\ UNCHANGED <<deviceVars, viewportVars, scene, ssboVars, tlasVars, boundSets,
                   faultVars>>
    /\ UNCHANGED unitVars
    /\ UNCHANGED acquireResult
    /\ UNCHANGED lightUboWritten
    /\ UNCHANGED onUpdatePrepared
    /\ UNCHANGED pipelineVars
    /\ UNCHANGED extentVars

\* doRenderPasses, the swap-chain render pass: UiRenderSystem::render samples
\* the scene image
SwapChainRenderPass ==
    /\ pc = "swapChainPass"
    /\ pc' = "endFrame"
    /\ UNCHANGED <<deviceVars, masterVars>>
    /\ UNCHANGED unitVars
    /\ UNCHANGED acquireResult
    /\ UNCHANGED lightUboWritten
    /\ UNCHANGED onUpdatePrepared
    /\ UNCHANGED pipelineVars
    /\ UNCHANGED extentVars

Next ==
    \/ WindowResize
    \/ SceneUpdate
    \/ BeginFrame
    \/ OnUpdateViewport
    \/ UpdateLights
    \/ UpdateMaterialDescriptorSet
    \/ CreateTLAS_Build
    \/ UpdateTLASDescriptorSet
    \/ DestroyTLAS
    \/ RayTracingUpdateTransition
    \/ RayTrace
    \/ TransitionAfterRayTracing
    \/ Denoise
    \/ CopyDenoised
    \/ TransitionAfterDenoise
    \/ BeginOffscreenRenderPass
    \/ EndOffscreenRenderPass
    \/ UpdateUi
    \/ SwapChainRenderPass
    \/ EndFrame
    \/ RecreateSwapChain
    \/ GpuComplete
    \/ PresentComplete

Spec == Init /\ [][Next]_vars

----------------------------------------------------------------------------
(* The scene image, the descriptor sets and the TLAS: properties of Spec *)

\* C5: when the swap-chain render pass begins (the UI samples the scene image),
\* the tracked layout of the scene image is SHADER_READ_ONLY_OPTIMAL, whatever
\* the ray-tracing, denoising and debug flags are and whether or not the
\* viewport resources were recreated in the frame.
C5_ReadOnlyAtSwapChainPass ==
    pc \in {"ui", "swapChainPass"} => sceneImageLayout = "SHADER_READ_ONLY_OPTIMAL"

\* a frame that recreated the viewport and denoised reaches the swap-chain pass
C5_Witness ==
    /\ pc = "swapChainPass"
    /\ viewportRecreated
    /\ DenoiserSet \in boundSets

\* C6: after each recorded pass the tracked layout of the scene image is one of
\* GENERAL, SHADER_READ_ONLY_OPTIMAL, COLOR_ATTACHMENT_OPTIMAL,
\* TRANSFER_SRC_OPTIMAL, TRANSFER_DST_OPTIMAL, and it is the layout the next
\* pass requires: GENERAL before the path tracer, SHADER_READ_ONLY_OPTIMAL
\* before the denoiser samples it and before the offscreen render pass begins,
\* TRANSFER_DST_OPTIMAL before the denoised copy; the flags may be toggled
\* between frames.
C6_LayoutMatchesNextPass ==
    /\ sceneImageLayout \in {"GENERAL", "SHADER_READ_ONLY_OPTIMAL",
                             "COLOR_ATTACHMENT_OPTIMAL", "TRANSFER_SRC_OPTIMAL",
                             "TRANSFER_DST_OPTIMAL"}
    /\ (pc = "render" /\ m_isRaytracingEnabled) => sceneImageLayout = "GENERAL"
    /\ pc = "denoise" => sceneImageLayout = "SHADER_READ_ONLY_OPTIMAL"
    /\ (pc = "render" /\ ~m_isRaytracingEnabled) =>
           sceneImageLayout = "SHADER_READ_ONLY_OPTIMAL"
    /\ pc = "copy" => sceneImageLayout = "TRANSFER_DST_OPTIMAL"

\* the offscreen render pass has begun in a frame that follows ray-traced
\* frames: ray tracing was switched off between frames
C6_Witness ==
    /\ pc = "offscreen"
    /\ ~m_isRaytracingEnabled
    /\ m_tlas # 0
    /\ sceneImageLayout = "SHADER_READ_ONLY_OPTIMAL"

\* C7: no descriptor set (TLAS, mesh-instance, emitter, volume, material,
\* denoiser) is written while a submitted frame that bound it is unfinished.
C7_NoWriteWhileBound == ~descriptorFault

\* the TLAS set, bound by the earlier ray-traced frames, has just been
\* rewritten to the new acceleration structure
C7_Witness ==
    /\ pc = "tlasDestroy"
    /\ m_tlas # 0
    /\ tlasDescriptor = newTlas
    /\ lastSubmits # <<>>
    /\ ~descriptorFault

\* C8: once createTLAS has returned, the mesh-instance, emitter and volume
\* SSBOs hold exactly the records built from the scene in that call.
C8_BuffersMatchScene ==
    pc = "toGeneral" =>
        /\ m_meshInstanceBuffer = DeviceBuffer(MeshInstanceData(scene))
        /\ m_emittersBuffer = DeviceBuffer(EmitterData(scene))
        /\ m_volumesBuffer = DeviceBuffer(VolumeData(scene))

\* C9: a TLAS handle is destroyed, and the buffer behind it freed, only when
\* every submitted frame that traced against it has finished.
C9_TlasNotFreedInFlight == ~tlasFault

\* the second acceleration structure is current and the first one is gone
C9_Witness ==
    /\ pc = "toGeneral"
    /\ m_tlas = 2
    /\ liveTlas = {2}
    /\ ~tlasFault

\* C10: in every createTLAS call the TLAS descriptor set is rewritten to the new
\* acceleration structure before the previous handle is destroyed, so the set
\* never references a destroyed acceleration structure.
C10_DescriptorReferencesLiveTlas ==
    /\ tlasDescriptor # 0 => tlasDescriptor \in liveTlas
    /\ pc = "tlasDestroy" => tlasDescriptor = newTlas

\* the set already references the new structure while the previous one is
\* still alive and about to be destroyed
C10_Witness ==
    /\ pc = "tlasDestroy"
    /\ m_tlas # 0
    /\ m_tlas \in liveTlas
    /\ tlasDescriptor = newTlas
    /\ tlasDescriptor # m_tlas

----------------------------------------------------------------------------
(* RayTracingSceneManagerSystem::createTLAS, the entity loop on its own *)

\* std::numeric_limits<uint32_t>::max(), 0xFFFFFFFF: written as the 32-bit
\* integer with that bit pattern
InvalidIndex == -1

\* number of entities of the view
MaxView == 3

\* the components of an entity with a Transform and a Mesh; a material is
\* emissive or not
EntityComponents ==
    {c \in [material : BOOLEAN, emissive : BOOLEAN, volume : BOOLEAN] :
        c.emissive => c.material}

Views == UNION {[1 .. n -> EntityComponents] : n \in 0 .. MaxView}

\* entity.hasAny<MaterialComponent, VolumeComponent>()
HasAnyMaterialOrVolume(c) == c.material \/ c.volume

\* instanceIndex++
NextInstanceIndex_Same(i) == i
NextInstanceIndex(i) == i + 1

\* the locals and the member lists before the loop
LoopStart ==
    [instances |-> <<>>, meshInstanceData |-> <<>>, emitters |-> <<>>, volumes |-> <<>>,
     instanceIndex |-> 0, volumeIndex |-> 0]

\* One iteration of the loop for entity e of view v (e stands for the entity's
\* transform and mesh in the records).  The volume branch is the else of the
\* material branch.  instanceCustomIndex is a 24-bit field; every material of
\* the view is material 0 of the registry.
CreateTLAS_Entity(st, v, e) ==
    LET c == v[e]
        volumeBranch == ~c.material /\ c.volume
        meshInstance ==
            [entity |-> e,
             materialIndex |-> IF c.material THEN 0 ELSE InvalidIndex,
             volumeIndex |-> IF volumeBranch THEN st.volumeIndex ELSE InvalidIndex]
    IN  IF ~HasAnyMaterialOrVolume(c)
        THEN st
        ELSE [instances |->
                  Append(st.instances,
                         [entity |-> e,
                          instanceCustomIndex |-> st.instanceIndex % 16777216]),
              meshInstanceData |-> Append(st.meshInstanceData, meshInstance),
              emitters |->
                  IF c.material /\ c.emissive
                  THEN Append(st.emitters, [instanceIndex |-> st.instanceIndex])
                  ELSE st.emitters,
              volumes |->
                  IF volumeBranch THEN Append(st.volumes, [entity |-> e]) ELSE st.volumes,
              instanceIndex |-> NextInstanceIndex(st.instanceIndex),
              volumeIndex |-> IF volumeBranch THEN st.volumeIndex + 1 ELSE st.volumeIndex]

\* for (auto entityHandle : view)
RECURSIVE CreateTLAS_Loop(_, _, _)
CreateTLAS_Loop(st, v, e) ==
    IF e > Len(v) THEN st ELSE CreateTLAS_Loop(CreateTLAS_Entity(st, v, e), v, e + 1)

\* createTLAS up to the three update...DescriptorSet calls
CreateTLAS_Records ==
    /\ ~done
    /\ LET st == CreateTLAS_Loop(LoopStart, view, 1)
       IN  /\ instances' = st.instances
           /\ m_meshInstanceData' = st.meshInstanceData
           /\ m_emitters' = st.emitters
           /\ m_volumes' = st.volumes
    /\ done' = TRUE
    /\ UNCHANGED <<view, frameVars, sbtUnitVars, registryVars, formatVars, imageVars, lightVars,
                   billboardVars,
                   presentModeVars,
                   samplerVars,
                   layerVars>>

InitTLAS ==
    /\ FrameInit
    /\ LayerStackEmpty
    /\ DenoiserIdle
    /\ PresentModeIdle
    /\ BillboardsIdle
    /\ LightsIdle
    /\ ImageIdle
    /\ NoSwapChain
    /\ SbtUnitIdle
    /\ RegistriesEmpty
    /\ done = FALSE
    /\ view \in Views
    /\ instances = <<>>
    /\ m_meshInstanceData = <<>>
    /\ m_emitters = <<>>
    /\ m_volumes = <<>>

NextTLAS == CreateTLAS_Records

SpecTLAS == InitTLAS /\ [][NextTLAS]_vars

\* the entities of the view that have a Material or a Volume
EmittedEntities == {e \in 1 .. Len(view) : view[e].material \/ view[e].volume}

\* C11: createTLAS emits one instance per entity that has a Material or a
\* Volume, in view order; the k-th instance emitted has instanceCustomIndex k
\* (counting from 0) and entry k of the mesh-instance records describes the
\* same entity, also when entities without both components are skipped.
C11_InstanceIndexMatchesRecord ==
    done =>
        /\ Len(instances) = Cardinality(EmittedEntities)
        /\ Len(m_meshInstanceData) = Len(instances)
        /\ \A k \in 1 .. Len(instances) :
            /\ instances[k].instanceCustomIndex = k - 1
            /\ instances[k].entity \in EmittedEntities
            /\ m_meshInstanceData[k].entity = instances[k].entity
        /\ \A j, k \in 1 .. Len(instances) :
            j < k => instances[j].entity < instances[k].entity

\* two instances emitted around a skipped entity
C11_Witness ==
    /\ done
    /\ Len(view) = 3
    /\ ~(view[2].material \/ view[2].volume)
    /\ Len(instances) = 2
    /\ instances[2].instanceCustomIndex = 1
    /\ m_meshInstanceData[2].entity = 3

\* C12: every emitted entity with a Volume, with or without a Material, has
\* exactly one volume record, at the position its mesh-instance record stores
\* as volume index; entities without a Volume keep volume index 0xFFFFFFFF.
C12_VolumeRecordPerVolumeEntity ==
    done =>
        \A k \in 1 .. Len(m_meshInstanceData) :
            LET r == m_meshInstanceData[k]
            IN  IF view[r.entity].volume
                THEN /\ r.volumeIndex # InvalidIndex
                     /\ r.volumeIndex + 1 \in 1 .. Len(m_volumes)
                     /\ m_volumes[r.volumeIndex + 1].entity = r.entity
                     /\ Cardinality({j \in 1 .. Len(m_volumes) :
                                        m_volumes[j].entity = r.entity}) = 1
                ELSE r.volumeIndex = InvalidIndex

----------------------------------------------------------------------------
(* RayTracingRenderSystem::createShaderBindingTable on its own *)

\* largest value of a device property
MaxProperty == 6

\* (shaderGroupHandleSize, shaderGroupHandleAlignment, shaderGroupBaseAlignment)
\* with handle size <= handle alignment <= base alignment
DeviceProperties ==
    {p \in [shaderGroupHandleSize : 1 .. MaxProperty,
            shaderGroupHandleAlignment : 1 .. MaxProperty,
            shaderGroupBaseAlignment : 1 .. MaxProperty] :
        /\ p.shaderGroupHandleSize <= p.shaderGroupHandleAlignment
        /\ p.shaderGroupHandleAlignment <= p.shaderGroupBaseAlignment}

\* m_sbtBuffer->getDeviceAddress()
SbtAddresses == {0, 64}

\* the first stage of each group of SHADER_GROUPS_VOL_PT
SHADER_GROUPS_VOL_PT ==
    <<"RAYGEN", "MISS", "MISS", "MISS", "CLOSEST_HIT", "CLOSEST_HIT", "CLOSEST_HIT">>

\* a & b on unsigned integers
RECURSIVE BitAnd(_, _)
BitAnd(a, b) ==
    IF a = 0 \/ b = 0
    THEN 0
    ELSE (a % 2) * (b % 2) + 2 * BitAnd(a \div 2, b \div 2)

\* (value + alignment - 1) & ~(alignment - 1) on uint32_t: x & ~m keeps the
\* bits of x that m does not have.  No sum wraps at the values of the model.
alignUp(value, alignment) ==
    LET x == value + alignment - 1
    IN  x - BitAnd(x, alignment - 1)

\* the switch over group.stages[0].first
GroupsCount(stages) ==
    Cardinality({i \in 1 .. Len(SHADER_GROUPS_VOL_PT) : SHADER_GROUPS_VOL_PT[i] \in stages})

rayGenGroupsCount == GroupsCount({"RAYGEN"})
missGroupsCount == GroupsCount({"MISS"})
hitGroupsCount == GroupsCount({"CLOSEST_HIT", "ANY_HIT", "INTERSECTION"})

handleSizeAligned(p) == alignUp(p.shaderGroupHandleSize, p.shaderGroupHandleAlignment)
rayGenSectionSize(p) ==
    alignUp(handleSizeAligned(p) * rayGenGroupsCount, p.shaderGroupBaseAlignment)
missSectionSize(p) ==
    alignUp(handleSizeAligned(p) * missGroupsCount, p.shaderGroupBaseAlignment)
hitSectionSize(p) ==
    alignUp(handleSizeAligned(p) * hitGroupsCount, p.shaderGroupBaseAlignment)

\* createShaderBindingTable: the three regions of the SBT buffer
CreateShaderBindingTable ==
    /\ ~done
    /\ \E sbtAddress \in SbtAddresses :
        LET p == rtPipelineProps
        IN  /\ m_raygenRegion' =
                   [deviceAddress |-> sbtAddress,
                    stride |-> rayGenSectionSize(p),
                    size |-> rayGenSectionSize(p)]
            /\ m_missRegion' =
                   [deviceAddress |-> sbtAddress + rayGenSectionSize(p),
                    stride |-> handleSizeAligned(p),
                    size |-> missSectionSize(p)]
            /\ m_hitRegion' =
                   [deviceAddress |-> sbtAddress + rayGenSectionSize(p) + missSectionSize(p),
                    stride |-> handleSizeAligned(p),
                    size |-> hitSectionSize(p)]
    /\ done' = TRUE
    /\ UNCHANGED <<rtPipelineProps, frameVars, tlasUnitVars, registryVars, formatVars, imageVars, lightVars,
                   billboardVars,
                   presentModeVars,
                   samplerVars,
                   layerVars>>

InitSBT ==
    /\ FrameInit
    /\ LayerStackEmpty
    /\ DenoiserIdle
    /\ PresentModeIdle
    /\ BillboardsIdle
    /\ LightsIdle
    /\ ImageIdle
    /\ NoSwapChain
    /\ TlasUnitIdle
    /\ RegistriesEmpty
    /\ done = FALSE
    /\ rtPipelineProps \in DeviceProperties
    /\ m_raygenRegion = NoRegion
    /\ m_missRegion = NoRegion
    /\ m_hitRegion = NoRegion

NextSBT == CreateShaderBindingTable

SpecSBT == InitSBT /\ [][NextSBT]_vars

\* the smallest multiple of a that is >= v
SmallestMultipleAtLeast(v, a) ==
    CHOOSE m \in v .. (v + a) :
        /\ m % a = 0
        /\ \A n \in v .. (v + a) : n % a = 0 => m <= n

\* C13: for device properties H <= Ha <= Ba the regions made by
\* createShaderBindingTable have raygen.stride = raygen.size, sizes that are
\* multiples of Ba, miss and hit strides equal to the smallest multiple of Ha
\* that is >= H, and lie back to back.
C13_SbtRegionsAligned ==
    (done /\ rtPipelineProps.shaderGroupHandleSize >= 1) =>
        LET Ha == rtPipelineProps.shaderGroupHandleAlignment
            Ba == rtPipelineProps.shaderGroupBaseAlignment
            H == rtPipelineProps.shaderGroupHandleSize
        IN  /\ m_raygenRegion.stride = m_raygenRegion.size
            /\ m_raygenRegion.size % Ba = 0
            /\ m_missRegion.size % Ba = 0
            /\ m_hitRegion.size % Ba = 0
            /\ m_missRegion.stride = SmallestMultipleAtLeast(H, Ha)
            /\ m_hitRegion.stride = SmallestMultipleAtLeast(H, Ha)
            /\ m_raygenRegion.deviceAddress + m_raygenRegion.size = m_missRegion.deviceAddress
            /\ m_missRegion.deviceAddress + m_missRegion.size = m_hitRegion.deviceAddress

----------------------------------------------------------------------------
(* TextureRegistry, MaterialRegistry and Application::registerResources *)

\* cap on the number of entries of a registry
MaxRegistry == 4

WHITE_PIXEL == "pixel_0xFFFFFFFF_RGBA8_SRGB"
GRAY_PIXEL_LINEAR == "pixel_0xFF808080_RGBA8_LINEAR"
DEFAULT_MATERIAL == "default_material"

\* What the resource manager holds when registerResources runs: default
\* images, an image that is no Texture2D, a mesh, the default material and a
\* scene material.  id stands for the resource's UUID.
Resources ==
    {[id |-> 1, type |-> "Image", texture2D |-> TRUE, alias |-> WHITE_PIXEL],
     [id |-> 2, type |-> "Image", texture2D |-> TRUE, alias |-> GRAY_PIXEL_LINEAR],
     [id |-> 3, type |-> "Image", texture2D |-> FALSE, alias |-> "environment"],
     [id |-> 4, type |-> "Mesh", texture2D |-> FALSE, alias |-> "mesh"],
     [id |-> 5, type |-> "Material", texture2D |-> FALSE, alias |-> DEFAULT_MATERIAL],
     [id |-> 6, type |-> "Material", texture2D |-> FALSE, alias |-> "material"]}

\* an id and an alias that no resource has
UnknownId == 0
UnknownAlias == "unknown"

\* map[key] = value on an unordered_map
Put(map, key, value) ==
    [k \in DOMAIN map \cup {key} |-> IF k = key THEN value ELSE map[k]]

\* history of add: the index the first add of an id returned
Assign(assigned, id, index) ==
    IF id \in DOMAIN assigned THEN assigned ELSE Put(assigned, id, index)

\* TextureRegistry::add on registry state t = [textures, idToIndex, aliasToIndex,
\* assigned]; an image that is no Texture2D is not stored
TextureRegistry_add(t, image) ==
    IF ~image.texture2D
    THEN t
    ELSE LET index == Len(t.textures)
         IN  [t EXCEPT !.textures = Append(t.textures, image.id),
                       !.idToIndex = Put(t.idToIndex, image.id, index),
                       !.aliasToIndex =
                           IF image.alias # ""
                           THEN Put(t.aliasToIndex, image.alias, index)
                           ELSE t.aliasToIndex,
                       !.assigned = Assign(t.assigned, image.id, index)]

\* MaterialRegistry::add on registry state m = [materials, idToIndex, assigned]
MaterialRegistry_add(m, material) ==
    LET index == Len(m.materials)
    IN  [m EXCEPT !.materials = Append(m.materials, material.id),
                  !.idToIndex = Put(m.idToIndex, material.id, index),
                  !.assigned = Assign(m.assigned, material.id, index)]

\* TextureRegistry::getIndex(id), TextureRegistry::getIndex(alias),
\* MaterialRegistry::getIndex(id)
TextureRegistry_getIndex(id) ==
    IF id \in DOMAIN m_textureIdToIndex THEN m_textureIdToIndex[id] ELSE 0
TextureRegistry_getIndexOfAlias(alias) ==
    IF alias \in DOMAIN m_aliasToIndex THEN m_aliasToIndex[alias] ELSE 0
MaterialRegistry_getIndex(id) ==
    IF id \in DOMAIN m_materialIdToIndex THEN m_materialIdToIndex[id] ELSE 0

\* ResourceManager::foreach visits every resource once, in the order of the
\* map m_resources, which is keyed by UUID
EnumerationOrders ==
    {order \in [1 .. Cardinality(Resources) -> Resources] :
        \A i, j \in DOMAIN order : i # j => order[i] # order[j]}

\* the first foreach of registerResources, from position i of the order
RECURSIVE RegisterImages(_, _, _)
RegisterImages(t, order, i) ==
    IF i > Len(order)
    THEN t
    ELSE RegisterImages(IF order[i].type = "Image"
                        THEN TextureRegistry_add(t, order[i])
                        ELSE t,
                        order, i + 1)

\* the second foreach of registerResources
RECURSIVE RegisterMaterials(_, _, _)
RegisterMaterials(m, order, i) ==
    IF i > Len(order)
    THEN m
    ELSE RegisterMaterials(IF order[i].type = "Material"
                           THEN MaterialRegistry_add(m, order[i])
                           ELSE m,
                           order, i + 1)

TextureRegistryState ==
    [textures |-> m_textures, idToIndex |-> m_textureIdToIndex,
     aliasToIndex |-> m_aliasToIndex, assigned |-> assignedIndex]

MaterialRegistryState(assigned) ==
    [materials |-> m_materials, idToIndex |-> m_materialIdToIndex, assigned |-> assigned]

\* Application::registerResources, called once by Application::start
RegisterResources ==
    /\ ~started
    /\ \E order \in EnumerationOrders :
        LET t == RegisterImages(TextureRegistryState, order, 1)
            m == RegisterMaterials(MaterialRegistryState(t.assigned), order, 1)
        IN  /\ m_textures' = t.textures
            /\ m_textureIdToIndex' = t.idToIndex
            /\ m_aliasToIndex' = t.aliasToIndex
            /\ m_materials' = m.materials
            /\ m_materialIdToIndex' = m.idToIndex
            /\ assignedIndex' = m.assigned
    /\ started' = TRUE
    /\ UNCHANGED <<done, frameVars, tlasUnitVars, sbtUnitVars, formatVars, imageVars, lightVars,
                   billboardVars,
                   presentModeVars,
                   samplerVars,
                   layerVars>>

\* a later call of TextureRegistry::add, with any image
TextureRegistryAdd ==
    /\ started
    /\ Len(m_textures) < MaxRegistry
    /\ \E image \in {r \in Resources : r.type = "Image"} :
        LET t == TextureRegistry_add(TextureRegistryState, image)
        IN  /\ m_textures' = t.textures
            /\ m_textureIdToIndex' = t.idToIndex
            /\ m_aliasToIndex' = t.aliasToIndex
            /\ assignedIndex' = t.assigned
    /\ UNCHANGED <<started, m_materials, m_materialIdToIndex, done, frameVars,
                   tlasUnitVars, sbtUnitVars, formatVars, imageVars, lightVars,
                   billboardVars,
                   presentModeVars,
                   samplerVars,
                   layerVars>>

\* a later call of MaterialRegistry::add, with any material
MaterialRegistryAdd ==
    /\ started
    /\ Len(m_materials) < MaxRegistry
    /\ \E material \in {r \in Resources : r.type = "Material"} :
        LET m == MaterialRegistry_add(MaterialRegistryState(assignedIndex), material)
        IN  /\ m_materials' = m.materials
            /\ m_materialIdToIndex' = m.idToIndex
            /\ assignedIndex' = m.assigned
    /\ UNCHANGED <<started, m_textures, m_textureIdToIndex, m_aliasToIndex, done,
                   frameVars, tlasUnitVars, sbtUnitVars, formatVars, imageVars, lightVars,
                   billboardVars,
                   presentModeVars,
                   samplerVars,
                   layerVars>>

InitRegistry ==
    /\ FrameInit
    /\ LayerStackEmpty
    /\ DenoiserIdle
    /\ PresentModeIdle
    /\ BillboardsIdle
    /\ LightsIdle
    /\ ImageIdle
    /\ NoSwapChain
    /\ TlasUnitIdle
    /\ SbtUnitIdle
    /\ done = FALSE
    /\ RegistriesEmpty

NextRegistry ==
    \/ RegisterResources
    \/ TextureRegistryAdd
    \/ MaterialRegistryAdd

SpecRegistry == InitRegistry /\ [][NextRegistry]_vars

\* C14: a texture lookup that misses returns index 0, and after start-up slot 0
\* of the texture registry holds the white default texture, in whatever order
\* the resource manager enumerated its resources.
C14_MissResolvesToWhite ==
    started =>
        /\ TextureRegistry_getIndex(UnknownId) = 0
        /\ TextureRegistry_getIndexOfAlias(UnknownAlias) = 0
        /\ m_textures # <<>>
        /\ \E r \in Resources : r.alias = WHITE_PIXEL /\ m_textures[1] = r.id

\* C15: once add has given an id its index, getIndex keeps returning that
\* index after any later add (also of the same resource) and the entry at that
\* index stays the resource.
C15_IndicesStable ==
    \A id \in DOMAIN assignedIndex :
        IF id \in DOMAIN m_textureIdToIndex
        THEN /\ TextureRegistry_getIndex(id) = assignedIndex[id]
             /\ m_textures[assignedIndex[id] + 1] = id
        ELSE /\ MaterialRegistry_getIndex(id) = assignedIndex[id]
             /\ m_materials[assignedIndex[id] + 1] = id

----------------------------------------------------------------------------
(* Renderer::beginFrame and the result of acquiring the next image *)

----------------------------------------------------------------------------
(* Renderer::recreateSwapChain and the formats of the swap chain *)

\* What a SwapChain is created with: the surface format chosen by
\* chooseSwapSurfaceFormat (format and colour space) and the depth format
SwapChainFormats ==
    [imageFormat : {"B8G8R8A8_SRGB", "B8G8R8A8_UNORM"},
     colorSpace : {"SRGB_NONLINEAR", "DISPLAY_P3_NONLINEAR"},
     depthFormat : {"D32_SFLOAT", "D24_UNORM_S8_UINT"}]

\* SwapChain::compareSwapFormats
compareSwapFormats(a, b) ==
    /\ a.imageFormat = b.imageFormat
    /\ a.depthFormat = b.depthFormat

\* recreateSwapChain: the first swap chain, or a new one made from the old one
\* and compared with it
RecreateSwapChain_Formats ==
    /\ ~swapChainError
    /\ \E new \in SwapChainFormats :
        /\ m_swapChain' = new
        /\ IF m_swapChain = NullSwapChain
           THEN UNCHANGED <<oldSwapChain, swapChainError>>
           ELSE /\ oldSwapChain' = m_swapChain
                /\ swapChainError' = ~compareSwapFormats(m_swapChain, new)
    /\ UNCHANGED <<done, frameVars, tlasUnitVars, sbtUnitVars, registryVars, imageVars, lightVars,
                   billboardVars,
                   presentModeVars,
                   samplerVars,
                   layerVars>>

InitFormats ==
    /\ FrameInit
    /\ LayerStackEmpty
    /\ DenoiserIdle
    /\ PresentModeIdle
    /\ BillboardsIdle
    /\ LightsIdle
    /\ ImageIdle
    /\ TlasUnitIdle
    /\ SbtUnitIdle
    /\ RegistriesEmpty
    /\ done = FALSE
    /\ NoSwapChain

NextFormats == RecreateSwapChain_Formats

SpecFormats == InitFormats /\ [][NextFormats]_vars

\* C17: when the swap chain made by a recreation differs from the one it
\* replaces in colour format, colour space or depth format, recreateSwapChain
\* fails with an error.
C17_FormatDriftRejected ==
    (oldSwapChain # NullSwapChain /\ m_swapChain # oldSwapChain) => swapChainError

----------------------------------------------------------------------------
(* VulkanImage::transitionImageLayout(SingleTimeCmd) on an image on its own *)

\* cap on the number of barriers recorded
MaxBarriers == 2

\* the layouts of the table and one layout outside it
Layouts == OldLayoutsHandled \cup {"PRESENT_SRC_KHR"}

\* One call of a transition function with newLayout = new.  The switches throw
\* before vkCmdPipelineBarrier and setImageLayout are reached.
Transition(after, new) ==
    /\ ~layoutError
    /\ Len(barriers) < MaxBarriers
    /\ lastTransition' =
           [old |-> m_currentLayout, new |-> new, recorded |-> Len(barriers)]
    /\ layoutError' = TransitionThrows(m_currentLayout, new)
    /\ barriers' =
           IF TransitionThrows(m_currentLayout, new)
           THEN barriers
           ELSE Append(barriers, <<m_currentLayout, new>>)
    /\ m_currentLayout' = after
    /\ UNCHANGED <<done, frameVars, tlasUnitVars, sbtUnitVars, registryVars, formatVars,
                   lightVars,
                   billboardVars,
                   presentModeVars,
                   samplerVars,
                   layerVars>>

\* VulkanImage::transitionImageLayout(commandBuffer, newLayout, ...)
ImageTransitionLayout ==
    \E new \in Layouts :
        Transition(TransitionImageLayout(m_currentLayout, new), new)

\* VulkanImage::transitionImageLayoutSingleTimeCmd(newLayout, ...)
ImageTransitionLayoutSingleTimeCmd ==
    \E new \in Layouts :
        Transition(TransitionImageLayoutSingleTimeCmd(m_currentLayout, new), new)

InitImage ==
    /\ FrameInit
    /\ LayerStackEmpty
    /\ DenoiserIdle
    /\ PresentModeIdle
    /\ BillboardsIdle
    /\ LightsIdle
    /\ TlasUnitIdle
    /\ SbtUnitIdle
    /\ RegistriesEmpty
    /\ NoSwapChain
    /\ done = FALSE
    /\ m_currentLayout \in Layouts
    /\ barriers = <<>>
    /\ layoutError = FALSE
    /\ lastTransition = NoTransition

NextImage ==
    \/ ImageTransitionLayout
    \/ ImageTransitionLayoutSingleTimeCmd

SpecImage == InitImage /\ [][NextImage]_vars

\* what a transition call must have done, given the layouts it succeeds for
TransitionOutcome(oldLayouts, newLayouts) ==
    lastTransition # NoTransition =>
        IF lastTransition.old \in oldLayouts /\ lastTransition.new \in newLayouts
        THEN /\ ~layoutError
             /\ m_currentLayout = lastTransition.new
             /\ Len(barriers) = lastTransition.recorded + 1
             /\ barriers[Len(barriers)] = <<lastTransition.old, lastTransition.new>>
        ELSE /\ layoutError
             /\ m_currentLayout = lastTransition.old
             /\ Len(barriers) = lastTransition.recorded

\* C18 as stated: a transition succeeds for every pair of current and new
\* layouts of the eight-layout table, and fails exactly outside it.
C18_AllPairsSucceed ==
    TransitionOutcome(
        {"UNDEFINED", "PREINITIALIZED", "COLOR_ATTACHMENT_OPTIMAL",
         "DEPTH_STENCIL_ATTACHMENT_OPTIMAL", "TRANSFER_SRC_OPTIMAL",
         "TRANSFER_DST_OPTIMAL", "SHADER_READ_ONLY_OPTIMAL", "GENERAL"},
        {"UNDEFINED", "PREINITIALIZED", "COLOR_ATTACHMENT_OPTIMAL",
         "DEPTH_STENCIL_ATTACHMENT_OPTIMAL", "TRANSFER_SRC_OPTIMAL",
         "TRANSFER_DST_OPTIMAL", "SHADER_READ_ONLY_OPTIMAL", "GENERAL"})

\* C18: a transition succeeds, records one barrier and sets the tracked layout
\* to the new layout when the current layout is one of the eight of the table
\* and the new layout one of the six that can be a destination (not UNDEFINED,
\* not PREINITIALIZED); otherwise it fails, records no barrier and leaves the
\* tracked layout unchanged.
C18_TransitionTable ==
    TransitionOutcome(
        {"UNDEFINED", "PREINITIALIZED", "COLOR_ATTACHMENT_OPTIMAL",
         "DEPTH_STENCIL_ATTACHMENT_OPTIMAL", "TRANSFER_SRC_OPTIMAL",
         "TRANSFER_DST_OPTIMAL", "SHADER_READ_ONLY_OPTIMAL", "GENERAL"},
        {"COLOR_ATTACHMENT_OPTIMAL", "DEPTH_STENCIL_ATTACHMENT_OPTIMAL",
         "TRANSFER_SRC_OPTIMAL", "TRANSFER_DST_OPTIMAL", "SHADER_READ_ONLY_OPTIMAL",
         "GENERAL"})

\* a transition to GENERAL succeeded, then a transition to UNDEFINED failed
C18_Witness ==
    /\ layoutError
    /\ lastTransition.old = "GENERAL"
    /\ lastTransition.new = "UNDEFINED"
    /\ m_currentLayout = "GENERAL"
    /\ Len(barriers) = 1

----------------------------------------------------------------------------
(* onUpdate and doRenderPasses take the same branch: a property of Spec *)

\* the steps of doRenderPasses that only its ray-tracing branch goes through
PathTracerRecorded == pc \in {"afterTrace", "denoise", "copy", "afterDenoise"}

\* C29: within one frame doRenderPasses takes the branch onUpdate prepared
\* for, a toggle of the ray-tracing flag in the UI taking effect from the next
\* frame only: where doRenderPasses chooses, the flag is what onUpdate saw;
\* the path tracer is recorded only in a frame whose onUpdate rebuilt the TLAS
\* (the TLAS set points at the live m_tlas) and moved the scene image to
\* GENERAL; the offscreen raster pass is begun only in a frame whose onUpdate
\* skipped that, with the scene image not in GENERAL.
C29_RenderBranchIsUpdateBranch ==
    /\ pc = "render" =>
          /\ onUpdatePrepared = (IF m_isRaytracingEnabled THEN "raytracing" ELSE "raster")
          /\ m_isRaytracingEnabled =>
                /\ sceneImageLayout = "GENERAL"
                /\ m_tlas # 0
                /\ m_tlas \in liveTlas
                /\ tlasDescriptor = m_tlas
                /\ m_tlas \notin PendingTlas
          /\ ~m_isRaytracingEnabled => sceneImageLayout # "GENERAL"
    /\ PathTracerRecorded => onUpdatePrepared = "raytracing"
    /\ pc = "offscreen" => onUpdatePrepared = "raster"
    /\ pc \in {"ui", "swapChainPass", "endFrame"} => onUpdatePrepared # "none"

\* the UI has just switched ray tracing on in a frame that was prepared and
\* rendered as a raster frame
C29_Witness ==
    /\ pc = "swapChainPass"
    /\ onUpdatePrepared = "raster"
    /\ m_isRaytracingEnabled
    /\ sceneImageLayout = OffscreenFinalLayout

----------------------------------------------------------------------------
(* The frame bracket of the Renderer: a property of SpecPacing *)

\* C27: a frame is started exactly from a beginFrame that returned a command
\* buffer to the end of the following endFrame.  A beginFrame that returns
\* null (OUT_OF_DATE) leaves the frame not started and the frame index as it
\* was; endFrame ends the frame and advances the frame index by one modulo
\* MAX_FRAMES_IN_FLIGHT, also when it recreates the swap chain.
C27_FrameBracket ==
    /\ [](m_isFrameStarted <=> pc \in {"update", "endFrame", "recreateInEnd"})
    /\ [][/\ (pc = "idle" /\ pc' \in {"update", "recreateInBegin"}) =>
               m_currentFrameIndex' = m_currentFrameIndex
          /\ (pc = "recreateInBegin" /\ pc' = "idle") =>
               /\ ~m_isFrameStarted'
               /\ m_currentFrameIndex' = m_currentFrameIndex
          /\ (pc = "update" \/ (pc = "endFrame" /\ pc' = "recreateInEnd")) =>
               m_currentFrameIndex' = m_currentFrameIndex
          /\ (pc \in {"endFrame", "recreateInEnd"} /\ pc' = "idle") =>
               /\ ~m_isFrameStarted'
               /\ m_currentFrameIndex' =
                      (m_currentFrameIndex + 1) % MAX_FRAMES_IN_FLIGHT]_vars

\* endFrame has recreated the swap chain and returned: the frame index has
\* advanced while the new swap chain starts again at frame 0, and no frame is
\* started
C27_Witness ==
    /\ pc = "idle"
    /\ ~m_isFrameStarted
    /\ acquireResult = "none"
    /\ m_currentFrameIndex = 1
    /\ m_currentFrame = 0
    /\ waitedFence = NoFence

----------------------------------------------------------------------------
(* ShadowMapRenderSystem::update in onUpdate: a property of Spec *)

\* the steps of a frame that onUpdate reaches only with m_isRaytracingEnabled
RayTracingSteps == {"createTLAS", "tlasWrite", "tlasDestroy", "toGeneral"}

\* C20: in a frame where ray tracing is enabled, ShadowMapRenderSystem::update
\* is not run: the frame's slot of the shadow light UBO is left unwritten.
C20_ShadowUboOnlyInRaster ==
    pc \in RayTracingSteps => ~lightUboWritten

----------------------------------------------------------------------------
(* The viewport resources after a resize: a property of Spec *)

\* the steps of a frame after the viewport check of onUpdate
AfterViewportCheck == pc \notin {"idle", "update", "recreateInBegin", "recreateInEnd"}

\* C24: once onUpdate has passed its viewport check, the scene image, the
\* offscreen depth image and framebuffer and the denoiser images have the extent
\* of the swap chain, the storage-image set and the UI set point at images of
\* that extent, and so does the denoiser set once the frame has bound it; a
\* frame that recreated them did so with the device idle and nothing recorded.
C24_ViewportFollowsExtent ==
    AfterViewportCheck =>
        /\ \A i \in ViewportImages : imageExtent[i] = swapChainExtent
        /\ \A d \in {StorageImageSet, ImguiSet} : descriptorImageExtent[d] = swapChainExtent
        /\ DenoiserSet \in boundSets => descriptorImageExtent[DenoiserSet] = swapChainExtent
        /\ viewportRecreated => DeviceIdle
        /\ (viewportRecreated /\ pc = "lights") => boundSets = {}

\* a later frame found the extent changed, recreated the viewport resources
\* and has traced, denoised and reached the UI pass on images of the new extent
C24_Witness ==
    /\ pc = "swapChainPass"
    /\ viewportRecreated
    /\ lastSubmits # <<>>
    /\ swapChainExtent = 1
    /\ {StorageImageSet, DenoiserSet} \subseteq boundSets

----------------------------------------------------------------------------
(* PointLightSystem::update on its own *)

\* number of point-light entities of the scene
MaxPointLights == 11

\* a point light stands for its position and colour
LightValues == {1, 2}

PointLightViews == UNION {[1 .. n -> LightValues] : n \in 0 .. MaxPointLights}

\* ubo.pointLights[lightIndex] = ...: the element written, if it is one of the array
WritePointLight(lights, lightIndex, light) ==
    IF lightIndex \in DOMAIN lights
    THEN [lights EXCEPT ![lightIndex] = light]
    ELSE lights

\* the loop of update from entity number e of view v, lightIndex = e - 1
RECURSIVE UpdatePointLights(_, _, _)
UpdatePointLights(lights, v, e) ==
    IF e > Len(v)
    THEN lights
    ELSE UpdatePointLights(WritePointLight(lights, e - 1, v[e]), v, e + 1)

\* PointLightSystem::update.  The loop writes ubo.pointLights[lightIndex] for
\* every entity of the view.  A write past the end of the array is undefined
\* behaviour: numLights, the member after the array, can then hold anything.
PointLightSystem_update ==
    /\ ~done
    /\ outOfBounds' = {i \in 0 .. (Len(pointLightView) - 1) : i >= MAX_LIGHTS}
    /\ \E numLights \in 0 .. MaxPointLights :
        /\ outOfBounds' = {} => numLights = Len(pointLightView)
        /\ ubo' = [pointLights |-> UpdatePointLights(ubo.pointLights, pointLightView, 1),
                   numLights |-> numLights]
    /\ done' = TRUE
    /\ UNCHANGED <<pointLightView, frameVars, tlasUnitVars, sbtUnitVars, registryVars,
                   formatVars, imageVars,
                   billboardVars,
                   presentModeVars,
                   samplerVars,
                   layerVars>>

InitLights ==
    /\ FrameInit
    /\ LayerStackEmpty
    /\ DenoiserIdle
    /\ PresentModeIdle
    /\ BillboardsIdle
    /\ TlasUnitIdle
    /\ SbtUnitIdle
    /\ RegistriesEmpty
    /\ NoSwapChain
    /\ ImageIdle
    /\ done = FALSE
    /\ pointLightView \in PointLightViews
    /\ ubo = UboCleared
    /\ outOfBounds = {}

NextLights == PointLightSystem_update

SpecLights == InitLights /\ [][NextLights]_vars

\* C19: after PointLightSystem::update, whatever the number of point lights,
\* ubo.numLights <= 10 and no element of ubo.pointLights at index >= 10 has
\* been written.
C19_LightsCapped ==
    done =>
        /\ ubo.numLights <= MAX_LIGHTS
        /\ outOfBounds = {}

----------------------------------------------------------------------------
(* The pipelines: shader reload and density regeneration in the frame loop.
   SpecPipelines follows onUpdate and doRenderPasses as far as the pipelines
   and the regeneration flag go; the scene image, the descriptor sets and the
   TLAS of the same functions are followed in Spec. *)

\* RayTracingRenderSystem::reloadShaders and DenoiserRenderSystem::reloadShaders
RayTracingBranchReload == {"rayTracing", "accumulation", "temporalFilter", "spatialFilter"}

\* the reloadShaders of MaterialRenderSystem, DebugRenderSystem (createPipelines:
\* solid and wireframe), SkyboxRenderSystem, PointLightSystem, ShadowMapRenderSystem
RasterBranchReload ==
    {"material", "debugSolid", "debugWireframe", "skybox", "pointLight", "shadowMap"}

\* DensityTextureRenderSystem::reloadShaders: createGenerationPipeline(false)
DensityTextureReload == {"generation"}

\* the pipelines one call of MasterRenderSystem::reloadShaders creates anew,
\* destroying the ones they replace
ReloadedPipelines(raytracing) ==
    (IF raytracing THEN RayTracingBranchReload ELSE RasterBranchReload)
        \cup DensityTextureReload

ReloadShadersWait_NoWait == TRUE

\* reloadShaders: vkDeviceWaitIdle has returned
ReloadShadersWait == DeviceIdle

\* pipelines bound by submissions the GPU has not finished
PendingPipelines == UNION {gfxQueue[k].pipelines : k \in 1 .. Len(gfxQueue)}

\* onUpdate up to the reload check: recreateViewportResources when the extent
\* changed, reloadShaders when the reload button was pressed
OnUpdateReload ==
    /\ pc = "update"
    /\ swapChainExtent # m_lastFrameSwapChainExtent => DeviceIdle
    /\ m_isReloadShadersButtonPressed => ReloadShadersWait
    /\ ViewportResize
    /\ IF m_isReloadShadersButtonPressed
       THEN /\ lastReload' =
                   [called |-> TRUE, raytracing |-> m_isRaytracingEnabled,
                    rebuilt |-> ReloadedPipelines(m_isRaytracingEnabled)]
            /\ pipelineFault' =
                   (pipelineFault \/
                    ReloadedPipelines(m_isRaytracingEnabled)
                        \cap (PendingPipelines \cup boundPipelines) # {})
       ELSE UNCHANGED <<lastReload, pipelineFault>>
    /\ m_isReloadShadersButtonPressed' = FALSE
    /\ pc' = "onUpdateCopy"
    /\ UNCHANGED <<deviceVars, m_isRaytracingEnabled, m_isDenoisingEnabled,
                   m_isDebugEnabled, scene, ssboVars, tlasVars, boundSets, tlasFault>>
    /\ UNCHANGED <<acquireResult, lightUboWritten, onUpdatePrepared, boundPipelines, m_needsRegeneration,
                   pendingRequest, servedRequest, generateDispatches>>
    /\ UNCHANGED unitVars

\* the rest of onUpdate: the light updates and the blocking copy of
\* MaterialRegistry::updateDescriptorSet, which no pipeline takes part in
OnUpdateCopy ==
    /\ pc = "onUpdateCopy"
    /\ SingleTimeSubmitDone
    /\ lightUboWritten' = TRUE
    /\ onUpdatePrepared' = IF m_isRaytracingEnabled THEN "raytracing" ELSE "raster"
    /\ descriptorFault' =
           (descriptorFault \/ MaterialSet(m_currentFrameIndex) \in PendingSets)
    /\ pc' = "passes"
    /\ UNCHANGED <<deviceVars, flagVars, viewportVars, scene, ssboVars, tlasVars,
                   boundSets, tlasFault>>
    /\ UNCHANGED <<acquireResult, pipelineVars, extentVars>>
    /\ UNCHANGED unitVars

\* DensityTextureRenderSystem::generate and findMaxDensity bind both density pipelines
GeneratePipelines == {"generation", "globalMajorant"}

AfterGenerate_Kept == TRUE

\* generate: m_needsRegeneration = false
AfterGenerate == FALSE

\* the pipelines the passes of the active branch bind
BranchPipelines(wireframe) ==
    IF m_isRaytracingEnabled
    THEN {"rayTracing"} \cup
         (IF m_isDenoisingEnabled
          THEN {"accumulation", "temporalFilter", "spatialFilter"}
          ELSE {})
    ELSE {"shadowMap", "skybox", "pointLight"} \cup
         (IF m_isDebugEnabled
          THEN (IF wireframe THEN {"debugWireframe"} ELSE {"debugSolid"})
          ELSE {"material"})

\* doRenderPasses: generate when the flag is set, the passes of the active
\* branch, then updateUi (the density settings are shown with the debug
\* renderer) and the swap-chain render pass
DoRenderPasses ==
    /\ pc = "passes"
    /\ servedRequest' = pendingRequest
    /\ generateDispatches' = generateDispatches + (IF m_needsRegeneration THEN 1 ELSE 0)
    /\ \E wireframe \in BOOLEAN :
        boundPipelines' =
            boundPipelines
                \cup (IF m_needsRegeneration THEN GeneratePipelines ELSE {})
                \cup BranchPipelines(wireframe)
    /\ m_isRaytracingEnabled' \in BOOLEAN
    /\ IF m_isRaytracingEnabled'
       THEN m_isDenoisingEnabled' \in BOOLEAN
       ELSE UNCHANGED m_isDenoisingEnabled
    /\ m_isReloadShadersButtonPressed' \in BOOLEAN
    /\ m_isDebugEnabled' \in BOOLEAN
    /\ \E request \in BOOLEAN :
        /\ request => m_isDebugEnabled'
        /\ m_needsRegeneration' =
               ((IF m_needsRegeneration THEN AfterGenerate ELSE FALSE) \/ request)
        /\ pendingRequest' = ((pendingRequest /\ ~m_needsRegeneration) \/ request)
    /\ pc' = "endFrame"
    /\ UNCHANGED <<deviceVars, viewportVars, scene, ssboVars, tlasVars, boundSets,
                   faultVars>>
    /\ UNCHANGED <<acquireResult, lightUboWritten, onUpdatePrepared, lastReload, pipelineFault, extentVars>>
    /\ UNCHANGED unitVars

NextPipelines ==
    \/ WindowResize
    \/ BeginFrame
    \/ OnUpdateReload
    \/ OnUpdateCopy
    \/ DoRenderPasses
    \/ EndFrame
    \/ RecreateSwapChain
    \/ GpuComplete
    \/ PresentComplete

\* Scene::onUpdate is not among the steps: the scene stays as loaded
InitPipelines ==
    /\ Init
    /\ scene = {}

SpecPipelines == InitPipelines /\ [][NextPipelines]_vars

\* C21: a shader reload rebuilds exactly the pipelines of the active branch
\* (ray tracing and denoiser when ray tracing is enabled, the raster pipelines
\* otherwise) together with every density-volume pipeline, generation and
\* global majorant; the pipelines of the inactive branch are left untouched.
C21_ActiveBranchAndDensityRebuilt ==
    lastReload.called =>
        lastReload.rebuilt =
            (IF lastReload.raytracing THEN RayTracingPipelines ELSE RasterPipelines)
                \cup DensityPipelines

\* C22: a shader reload never destroys a pipeline that a submission still in
\* flight or a command already recorded in the current frame has bound: when
\* onUpdate has reloaded, the device is idle and nothing of the frame is recorded.
C22_NoDestroyedPipelineInUse ==
    /\ ~pipelineFault
    /\ (lastReload.called /\ pc = "onUpdateCopy") =>
           /\ gfxQueue = <<>>
           /\ boundPipelines = {}

\* a second or later frame reloaded the pipelines its predecessor had bound,
\* and has recorded its own passes on the new ones
C22_Witness ==
    /\ pc = "endFrame"
    /\ lastReload.called
    /\ lastSubmits # <<>>
    /\ boundPipelines \cap lastReload.rebuilt # {}

\* C23: the regeneration flag is an edge trigger.  A frame whose passes are
\* recorded holds one generate dispatch when a request was pending (the one of
\* start-up or one from the UI) and none otherwise, and the flag is set exactly
\* while a request waits for the next recorded frame.
C23_RegenerationEdgeTrigger ==
    /\ generateDispatches <= 1
    /\ m_needsRegeneration = pendingRequest
    /\ pc \in {"endFrame", "recreateInEnd"} =>
           generateDispatches = (IF servedRequest THEN 1 ELSE 0)

\* a request raised from the UI was dispatched by a later frame, and a frame
\* with nothing pending has recorded its passes
C23_Witness ==
    /\ pc = "endFrame"
    /\ lastSubmits # <<>>
    /\ servedRequest
    /\ generateDispatches = 1

----------------------------------------------------------------------------
(* PointLightSystem::render on its own *)

\* number of point-light entities of the view
MaxBillboards == 4

\* largest squared distance of a light to the camera
MaxDistanceSq == 2

\* the view: entity e is the e-th light, lightDistanceSq[e] its distanceSq
BillboardViews == UNION {[1 .. n -> 0 .. MaxDistanceSq] : n \in 0 .. MaxBillboards}

\* sorted[distanceSq] = entity on a std::map<float, entt::entity>: one entry per
\* key, an assignment to a key that is there replaces its entity
MapAssign(sorted, distanceSq, entity) ==
    [k \in DOMAIN sorted \cup {distanceSq} |->
        IF k = distanceSq THEN entity ELSE sorted[k]]

\* the first loop of render from entity e of the view
RECURSIVE SortLights(_, _, _)
SortLights(sorted, v, e) ==
    IF e > Len(v)
    THEN sorted
    ELSE SortLights(MapAssign(sorted, v[e], e), v, e + 1)

MaxKey(sorted) == CHOOSE k \in DOMAIN sorted : \A j \in DOMAIN sorted : j <= k

\* the second loop: std::ranges::reverse_view(sorted), one vkCmdDraw per entry
RECURSIVE ReverseViewDraws(_)
ReverseViewDraws(sorted) ==
    IF DOMAIN sorted = {}
    THEN <<>>
    ELSE <<sorted[MaxKey(sorted)]>> \o
         ReverseViewDraws([k \in DOMAIN sorted \ {MaxKey(sorted)} |-> sorted[k]])

\* PointLightSystem::render
PointLightSystem_render ==
    /\ ~done
    /\ draws' = ReverseViewDraws(SortLights(<<>>, lightDistanceSq, 1))
    /\ done' = TRUE
    /\ UNCHANGED <<lightDistanceSq, frameVars, tlasUnitVars, sbtUnitVars, registryVars,
                   formatVars, imageVars, lightVars,
                   presentModeVars,
                   samplerVars,
                   layerVars>>

InitBillboards ==
    /\ FrameInit
    /\ LayerStackEmpty
    /\ DenoiserIdle
    /\ PresentModeIdle
    /\ TlasUnitIdle
    /\ SbtUnitIdle
    /\ RegistriesEmpty
    /\ NoSwapChain
    /\ ImageIdle
    /\ LightsIdle
    /\ done = FALSE
    /\ lightDistanceSq \in BillboardViews
    /\ draws = <<>>

NextBillboards == PointLightSystem_render

SpecBillboards == InitBillboards /\ [][NextBillboards]_vars

\* C25: every point light of the view gets exactly one billboard draw, and the
\* draws are in order of non-increasing squared distance to the camera, also
\* when two or more lights are at the same distance.
C25_OneDrawPerLightBackToFront ==
    done =>
        /\ Len(draws) = Len(lightDistanceSq)
        /\ \A e \in 1 .. Len(lightDistanceSq) :
               Cardinality({i \in 1 .. Len(draws) : draws[i] = e}) = 1
        /\ \A i, j \in 1 .. Len(draws) :
               i < j => lightDistanceSq[draws[i]] >= lightDistanceSq[draws[j]]

----------------------------------------------------------------------------
(* SwapChain::chooseSwapPresentMode on its own *)

\* number of present modes the surface offers
MaxPresentModes == 3

PresentModes == {"MAILBOX", "IMMEDIATE", "FIFO", "FIFO_RELAXED"}

AvailablePresentModeLists == UNION {[1 .. n -> PresentModes] : n \in 0 .. MaxPresentModes}

\* #define USE_IMMEDIATE_PRESENT_MODE 0: the macro is defined, which is what
\* #ifdef USE_IMMEDIATE_PRESENT_MODE tests
USE_IMMEDIATE_PRESENT_MODE_defined == TRUE

\* for (availablePresentMode : availablePresentModes) if (availablePresentMode == mode)
Offers(available, mode) == \E i \in 1 .. Len(available) : available[i] = mode

chooseSwapPresentMode(available) ==
    IF Offers(available, "MAILBOX")
    THEN "MAILBOX"
    ELSE IF USE_IMMEDIATE_PRESENT_MODE_defined /\ Offers(available, "IMMEDIATE")
         THEN "IMMEDIATE"
         ELSE "FIFO"

\* one call of chooseSwapPresentMode (SwapChain::createSwapChain)
ChooseSwapPresentMode ==
    /\ ~done
    /\ presentMode' = chooseSwapPresentMode(availablePresentModes)
    /\ done' = TRUE
    /\ UNCHANGED <<availablePresentModes, frameVars, tlasUnitVars, sbtUnitVars,
                   registryVars, formatVars, imageVars, lightVars, billboardVars,
                   samplerVars,
                   layerVars>>

InitPresentMode ==
    /\ FrameInit
    /\ LayerStackEmpty
    /\ DenoiserIdle
    /\ TlasUnitIdle
    /\ SbtUnitIdle
    /\ RegistriesEmpty
    /\ NoSwapChain
    /\ ImageIdle
    /\ LightsIdle
    /\ BillboardsIdle
    /\ done = FALSE
    /\ availablePresentModes \in AvailablePresentModeLists
    /\ presentMode = "none"

NextPresentMode == ChooseSwapPresentMode

SpecPresentMode == InitPresentMode /\ [][NextPresentMode]_vars

\* C26: chooseSwapPresentMode returns MAILBOX whenever MAILBOX is among the
\* available present modes and FIFO otherwise; no other mode is ever selected.
C26_MailboxElseFifo ==
    done =>
        presentMode =
            (IF \E i \in 1 .. Len(availablePresentModes) :
                    availablePresentModes[i] = "MAILBOX"
             THEN "MAILBOX"
             ELSE "FIFO")

----------------------------------------------------------------------------
(* The images of the DenoiserRenderSystem and the sampler they share *)

\* number of createImages calls (construction and resizes) of one denoiser
MaxSamplers == 6

\* width and height of the viewport extent range over 1 .. MaxExtent
MaxExtent == 3

ImageExtents == (1 .. MaxExtent) \X (1 .. MaxExtent)

\* VK_NULL_HANDLE
NoSampler == 0

\* the members m_accumulationImage, m_temporalHistoryImage, m_tempTemporalOutputImage
DenoiserImages == {"accumulation", "temporalHistory", "tempTemporalOutput"}

\* an empty Unique<VulkanImage>
NoImage == [alive |-> FALSE, m_sampler |-> NoSampler, extent |-> <<0, 0>>]

SamplerState == [images |-> denoiserImages, destroys |-> samplerDestroys,
                 inUse |-> destroyedInUse]

\* ~VulkanImage: if (m_sampler != VK_NULL_HANDLE) vkDestroySampler(...)
DestroySampler(image) == image.m_sampler # NoSampler

\* VulkanImage::~VulkanImage of the image held by one member
VulkanImage_destructor(st, slot) ==
    LET image == st.images[slot]
        sampler == image.m_sampler
    IN  IF ~image.alive
        THEN st
        ELSE [images |-> [st.images EXCEPT ![slot] = NoImage],
              destroys |-> IF DestroySampler(image)
                           THEN [st.destroys EXCEPT ![sampler] = @ + 1]
                           ELSE st.destroys,
              inUse |-> \/ st.inUse
                        \/ /\ DestroySampler(image)
                           /\ \E other \in DenoiserImages \ {slot} :
                                 /\ st.images[other].alive
                                 /\ st.images[other].m_sampler = sampler]

\* member = createUnique<VulkanImage>(...) releases the image the member held;
\* then createImageView(...).setImageSampler(sampler) on the new image
ReplaceImage(st, slot, sampler, extent) ==
    [VulkanImage_destructor(st, slot) EXCEPT
        !.images[slot] = [alive |-> TRUE, m_sampler |-> sampler, extent |-> extent]]

\* DenoiserRenderSystem::createImages: one new sampler, then the three images
\* in the order accumulation, tempTemporalOutput, temporalHistory
createImages(st, sampler, extent) ==
    ReplaceImage(
        ReplaceImage(
            ReplaceImage([st EXCEPT !.destroys = Append(@, 0)], "accumulation", sampler, extent),
            "tempTemporalOutput", sampler, extent),
        "temporalHistory", sampler, extent)

\* the members are destroyed in the reverse order of their declaration
DestroyImages(st) ==
    VulkanImage_destructor(
        VulkanImage_destructor(
            VulkanImage_destructor(st, "tempTemporalOutput"),
            "temporalHistory"),
        "accumulation")

StoreSamplerState(st) ==
    /\ denoiserImages' = st.images
    /\ samplerDestroys' = st.destroys
    /\ destroyedInUse' = st.inUse

SamplerFrame ==
    UNCHANGED <<done, frameVars, tlasUnitVars, sbtUnitVars, registryVars,
                formatVars, imageVars, lightVars, billboardVars, presentModeVars,
                   layerVars>>

\* DenoiserRenderSystem::DenoiserRenderSystem: createImages(swapChainExtent)
DenoiserRenderSystem_ctor ==
    /\ ~denoiserConstructed
    /\ samplerCount = 0
    /\ \E extent \in ImageExtents :
          StoreSamplerState(createImages(SamplerState, 1, extent))
    /\ denoiserConstructed' = TRUE
    /\ samplerCount' = 1
    /\ m_imageSamplerNearest' = 1
    /\ SamplerFrame

\* DenoiserRenderSystem::updateImages on a resize of the viewport
DenoiserRenderSystem_updateImages ==
    /\ denoiserConstructed
    /\ samplerCount < MaxSamplers
    /\ \E extent \in ImageExtents :
          StoreSamplerState(createImages(SamplerState, samplerCount + 1, extent))
    /\ samplerCount' = samplerCount + 1
    /\ m_imageSamplerNearest' = samplerCount + 1
    /\ UNCHANGED denoiserConstructed
    /\ SamplerFrame

\* DenoiserRenderSystem::~DenoiserRenderSystem and the destructors of its members
DenoiserRenderSystem_dtor ==
    /\ denoiserConstructed
    /\ StoreSamplerState(DestroyImages(SamplerState))
    /\ denoiserConstructed' = FALSE
    /\ UNCHANGED <<samplerCount, m_imageSamplerNearest>>
    /\ SamplerFrame

InitSamplers ==
    /\ FrameInit
    /\ LayerStackEmpty
    /\ TlasUnitIdle
    /\ SbtUnitIdle
    /\ RegistriesEmpty
    /\ NoSwapChain
    /\ ImageIdle
    /\ LightsIdle
    /\ BillboardsIdle
    /\ PresentModeIdle
    /\ done = FALSE
    /\ denoiserConstructed = FALSE
    /\ m_imageSamplerNearest = NoSampler
    /\ denoiserImages = [i \in DenoiserImages |-> NoImage]
    /\ samplerCount = 0
    /\ samplerDestroys = <<>>
    /\ destroyedInUse = FALSE

NextSamplers ==
    \/ DenoiserRenderSystem_ctor
    \/ DenoiserRenderSystem_updateImages
    \/ DenoiserRenderSystem_dtor

SpecSamplers == InitSamplers /\ [][NextSamplers]_vars

\* a sampler that no live image holds any more
SamplerReleased(h) ==
    \A i \in DenoiserImages :
        ~(denoiserImages[i].alive /\ denoiserImages[i].m_sampler = h)

\* C28: a sampler shared by several images through setImageSampler is
\* destroyed exactly once over any sequence of image creation, resize
\* (updateImages) and teardown, and never while an image that still uses it
\* is alive.
C28_SharedSamplerDestroyedOnce ==
    /\ ~destroyedInUse
    /\ \A h \in 1 .. samplerCount :
          samplerDestroys[h] = (IF SamplerReleased(h) THEN 1 ELSE 0)

----------------------------------------------------------------------------
(* LayerStack: pushLayer, pushOverlay, popLayer, popOverlay *)

\* number of Layer objects of one run
MaxLayerObjects == 4

LayerObjects == 1 .. MaxLayerObjects

\* emplace(begin() + at, element)
InsertAt(seq, at, element) ==
    SubSeq(seq, 1, at) \o <<element>> \o SubSeq(seq, at + 1, Len(seq))

\* erase(it), it the element at position at (from 1)
EraseAt(seq, at) == SubSeq(seq, 1, at - 1) \o SubSeq(seq, at + 1, Len(seq))

\* std::find_if over m_layers for the object: its position, 0 for end()
FindLayer(layers, object) ==
    IF \E i \in 1 .. Len(layers) : layers[i].object = object
    THEN CHOOSE i \in 1 .. Len(layers) : layers[i].object = object
    ELSE 0

\* begin() + m_layerInsertIndex is an iterator of the vector
InsertIndexInRange == m_layerInsertIndex \in 0 .. Len(m_layers)

LayerFrame ==
    UNCHANGED <<done, frameVars, tlasUnitVars, sbtUnitVars, registryVars,
                formatVars, imageVars, lightVars, billboardVars, presentModeVars,
                samplerVars>>

\* LayerStack::pushLayer; with m_layerInsertIndex out of range the iterator
\* passed to emplace is invalid and the element may land anywhere
PushLayer(object) ==
    /\ object \notin pushedLayers
    /\ \E at \in 0 .. Len(m_layers) :
          /\ InsertIndexInRange => at = m_layerInsertIndex
          /\ m_layers' = InsertAt(m_layers, at, [object |-> object, pushedAs |-> "layer"])
    /\ m_layerInsertIndex' = m_layerInsertIndex + 1
    /\ pushedLayers' = pushedLayers \cup {object}
    /\ LayerFrame

\* LayerStack::pushOverlay
PushOverlay(object) ==
    /\ object \notin pushedLayers
    /\ m_layers' = Append(m_layers, [object |-> object, pushedAs |-> "overlay"])
    /\ pushedLayers' = pushedLayers \cup {object}
    /\ UNCHANGED m_layerInsertIndex
    /\ LayerFrame

\* LayerStack::popLayer
PopLayer(object) ==
    /\ LET it == FindLayer(m_layers, object)
       IN  IF it # 0
           THEN /\ m_layers' = EraseAt(m_layers, it)
                /\ m_layerInsertIndex' = m_layerInsertIndex - 1
           ELSE UNCHANGED <<m_layers, m_layerInsertIndex>>
    /\ UNCHANGED pushedLayers
    /\ LayerFrame

\* LayerStack::popOverlay
PopOverlay(object) ==
    /\ LET it == FindLayer(m_layers, object)
       IN  IF it # 0
           THEN m_layers' = EraseAt(m_layers, it)
           ELSE UNCHANGED m_layers
    /\ UNCHANGED <<m_layerInsertIndex, pushedLayers>>
    /\ LayerFrame

InitLayers ==
    /\ FrameInit
    /\ TlasUnitIdle
    /\ SbtUnitIdle
    /\ RegistriesEmpty
    /\ NoSwapChain
    /\ ImageIdle
    /\ LightsIdle
    /\ BillboardsIdle
    /\ PresentModeIdle
    /\ DenoiserIdle
    /\ done = FALSE
    /\ m_layers = <<>>
    /\ m_layerInsertIndex = 0
    /\ pushedLayers = {}

NextLayers ==
    \E object \in LayerObjects :
        \/ PushLayer(object)
        \/ PushOverlay(object)
        \/ PopLayer(object)
        \/ PopOverlay(object)

SpecLayers == InitLayers /\ [][NextLayers]_vars

\* the positions of m_layers that hold an element pushed the given way
PushedAs(kind) == {i \in 1 .. Len(m_layers) : m_layers[i].pushedAs = kind}

\* C30: after any sequence of pushLayer, pushOverlay, popLayer and popOverlay
\* calls (popLayer of an overlay, popOverlay of a layer and pops of objects
\* that are not in the stack included) every layer precedes every overlay,
\* and m_layerInsertIndex is the number of layers stored and at most the
\* size of the stack.
C30_LayersBeforeOverlays ==
    /\ \A i \in PushedAs("layer") : \A j \in PushedAs("overlay") : i < j
    /\ m_layerInsertIndex = Cardinality(PushedAs("layer"))
    /\ m_layerInsertIndex \in 0 .. Len(m_layers)

====
